---- MODULE Spec2Model ----
(***************************************************************************)
(* Pipeline coordination subsystem (src/src/app/core/pipeline).            *)
(*                                                                         *)
(* Part 1: ResourceManager (resource_manager.py)                           *)
(*                                                                         *)
(* Identifiers produced by IDService.generate_id are modelled as fresh     *)
(* integers taken from next_id.  Wall-clock time (datetime.utcnow) is the  *)
(* variable now, in minutes, advanced by the environment.  Fields of a     *)
(* request or allocation that no operation reads (image_id, diagram_type,  *)
(* metadata, estimates) are left out of the records.                       *)
(***************************************************************************)
EXTENDS Integers, Sequences, FiniteSets, TLC

----------------------------------------------------------------------------
\* Bounds of the model

\* identifiers that may be generated after the initial state
MaxNewIds == 2

\* documents known to the manager
Docs == {"d1", "d2"}

\* the document whose requests arrive after the initial state (the requests
\* and allocations of the initial state belong to d1 and d2)
RequestDocs == {"d2"}

\* the processing types that callers request (HITL_REVIEW takes the same
\* branches as SIMILARITY_ANALYSIS)
RequestedTypes == {"gpu_interpretation", "ocr_extraction", "similarity_analysis"}

\* the instants (minutes) at which the environment lets calls happen
Instants == {0, 31, 481}

----------------------------------------------------------------------------
\* Program constants (ResourceManager class attributes)

MAX_GPU_SLOTS == 5
MAX_OCR_SLOTS == 10
DOCUMENT_TIMEOUT_HOURS == 24
MAX_QUEUE_DEPTH == 100

GPU_INTERPRETATION == "gpu_interpretation"
OCR_EXTRACTION == "ocr_extraction"
SIMILARITY_ANALYSIS == "similarity_analysis"
HITL_REVIEW == "hitl_review"
ProcessingType == {GPU_INTERPRETATION, OCR_EXTRACTION, SIMILARITY_ANALYSIS, HITL_REVIEW}

CRITICAL == "CRITICAL"
STANDARD == "STANDARD"
LOW == "LOW"
Priority == {CRITICAL, STANDARD, LOW}

STARVATION_PREVENTION_MINUTES(priority) ==
    CASE priority = CRITICAL -> 30
      [] priority = STANDARD -> 120
      [] priority = LOW -> 480

\* a document with no recorded start time
NoTime == -1

\* outcomes of a call that raises
RESOURCE_REQUEST_FAILED == "RESOURCE_REQUEST_FAILED"
QUEUE_EXHAUSTED == "QUEUE_EXHAUSTED"

----------------------------------------------------------------------------
VARIABLES
    gpu_allocations,        \* set of ResourceAllocation (dict keyed by allocation_id)
    ocr_allocations,
    critical_queue,         \* deque of ProcessingRequest
    standard_queue,
    low_queue,
    document_start_times,   \* document id -> minute, NoTime when absent
    timed_out_documents,    \* set of document ids
    escalations,            \* document id -> number of _escalate_timed_out_document calls
    now,                    \* datetime.utcnow(), in minutes
    next_id,                \* next identifier IDService.generate_id returns
    rm_call,                \* the last call made on the manager, with what it returned
    \* PipelineStateExecutor / PipelineStateValidator (state_machine.py)
    sm_input,               \* the arguments of the call under way
    sm_pc,                  \* "call" before the call, then "validated" or "executed"
    sm_result,              \* what the call returned or raised
    audit_events,           \* the committed AuditEvent rows
    sessions_opened,        \* database sessions opened by the executor
    \* DocumentCompletionCalculator (completion_calculator.py)
    image_store,            \* what _get_document_images yields for the document
    cc_pc,                  \* "idle", then "calculated"
    cc_metrics,             \* what calculate_completion returned or raised
    \* PipelineCoordinator, DiagramClassifier, SimilarityAnalyzer (coordination.py)
    co_input,               \* the image metadata and perceptual hash of the call
    co_pc,                  \* "call" before the call, then the method that ran
    co_result,              \* what the method returned
    \* ManualOverrideSystem, PipelineOverrideLogger (manual_overrides.py)
    ov_request,             \* the OverrideRequest and what the database holds for it
    ov_pc,                  \* "call" before request_override, then "returned" or "raised"
    ov_result,              \* the override id returned or the exception raised
    ov_trail,               \* audit writes, execution and rollback attempts, in order
    ov_states,              \* document id -> state held in the database
    \* PipelineCoordinationSystem.process_document (coordination_system.py)
    pd_input,               \* what the components called by process_document answer
    pd_pc,                  \* "call" before process_document, then "returned"
    pd_result,              \* the boolean process_document returned
    pd_held,                \* allocations held for the document after the call
    \* an entity driven through validate_transition
    lc_current,             \* the state the entity is in
    lc_reached,             \* the states it has been in
    lc_call,                \* the last transition asked for, with the validator's answer
    \* EventPublisher
    ep_log,                 \* the event log: the payloads committed, in commit order
    ep_committed,           \* payloads of publish_event calls between commit and put
    ep_refused,             \* payloads whose publish_event raised at the commit
    ep_queue,               \* _event_queue
    ep_taken,               \* the payloads the processing task took, in order
    ep_task,                \* _processing_task: "none", "running", "cancelled"
    ep_http_session,        \* whether _http_session is set
    ep_pc,                  \* the processing task: "idle" at its get, "delivering"
    ep_payload,             \* the payload of the last _deliver_event
    ep_clients,             \* _websocket_clients
    ep_seen,                \* every client ever added
    ep_subscribers,         \* the values of _subscribers
    ep_ws,                  \* the _deliver_to_websockets of the last _deliver_event
    ep_wh                   \* its _deliver_to_webhook, by subscription id

rmVars == <<gpu_allocations, ocr_allocations, critical_queue, standard_queue, low_queue,
            document_start_times, timed_out_documents, escalations, now, next_id, rm_call>>

smVars == <<sm_input, sm_pc, sm_result, audit_events, sessions_opened>>

ccVars == <<image_store, cc_pc, cc_metrics>>

coVars == <<co_input, co_pc, co_result>>

ovVars == <<ov_request, ov_pc, ov_result, ov_trail, ov_states>>

pdVars == <<pd_input, pd_pc, pd_result, pd_held>>

lcVars == <<lc_current, lc_reached, lc_call>>

epVars == <<ep_log, ep_committed, ep_refused, ep_queue, ep_taken, ep_task, ep_http_session,
            ep_pc, ep_payload, ep_clients, ep_seen, ep_subscribers, ep_ws, ep_wh>>

vars == <<rmVars, smVars, ccVars, coVars, ovVars, pdVars, lcVars, epVars>>

----------------------------------------------------------------------------
\* Helpers on sequences

RECURSIVE Reverse(_)
Reverse(s) == IF s = <<>> THEN <<>> ELSE Append(Reverse(Tail(s)), Head(s))

\* index of the first element of s that satisfies Test, 0 when there is none
FirstIndex(s, Test(_)) ==
    IF \E i \in 1..Len(s) : Test(s[i])
    THEN CHOOSE i \in 1..Len(s) : Test(s[i]) /\ \A j \in 1..(i-1) : ~Test(s[j])
    ELSE 0

RemoveAt(s, i) == SubSeq(s, 1, i-1) \o SubSeq(s, i+1, Len(s))

Range(s) == {s[i] : i \in 1..Len(s)}

----------------------------------------------------------------------------
\* The manager's mutable fields as one record, so that the private helpers
\* can be written as functions from state to state.

RMState ==
    [gpu |-> gpu_allocations, ocr |-> ocr_allocations,
     critical |-> critical_queue, standard |-> standard_queue, low |-> low_queue,
     start |-> document_start_times, next |-> next_id]

AllocationIds(allocs) == {a.allocation_id : a \in allocs}

\* _get_queue_depth
get_queue_depth(s) == Len(s.critical) + Len(s.standard) + Len(s.low)

\* (mutant) the ceiling test off by one
can_allocate_immediately_off_by_one(s, processing_type) ==
    IF processing_type = GPU_INTERPRETATION
    THEN Cardinality(s.gpu) <= MAX_GPU_SLOTS
    ELSE IF processing_type = OCR_EXTRACTION
    THEN Cardinality(s.ocr) <= MAX_OCR_SLOTS
    ELSE TRUE

\* _can_allocate_immediately
can_allocate_immediately(s, processing_type) ==
    IF processing_type = GPU_INTERPRETATION
    THEN Cardinality(s.gpu) < MAX_GPU_SLOTS
    ELSE IF processing_type = OCR_EXTRACTION
    THEN Cardinality(s.ocr) < MAX_OCR_SLOTS
    ELSE TRUE

\* _allocate_resource: a fresh allocation id, the document's start time
\* recorded when it has none, the allocation stored in its pool (the other
\* processing types have no pool and store nothing)
allocate_resource(s, document_id, processing_type, t) ==
    LET allocation_id == s.next
        allocation == [allocation_id |-> allocation_id,
                       processing_type |-> processing_type,
                       request_id |-> allocation_id,
                       document_id |-> document_id]
        s1 == [s EXCEPT !.next = @ + 1,
                        !.start[document_id] = IF @ = NoTime THEN t ELSE @]
    IN  [state |-> IF processing_type = GPU_INTERPRETATION
                   THEN [s1 EXCEPT !.gpu = @ \cup {allocation}]
                   ELSE IF processing_type = OCR_EXTRACTION
                   THEN [s1 EXCEPT !.ocr = @ \cup {allocation}]
                   ELSE s1,
         ret |-> allocation_id,
         error |-> ""]

\* _queue_request: raises QUEUE_EXHAUSTED at the maximum depth, otherwise a
\* fresh request id, the start time, and the request appended to the queue of
\* its priority
queue_request(s, document_id, processing_type, priority, t) ==
    IF get_queue_depth(s) >= MAX_QUEUE_DEPTH
    THEN [state |-> s, ret |-> 0, error |-> QUEUE_EXHAUSTED]
    ELSE
    LET request_id == s.next
        request == [request_id |-> request_id,
                    document_id |-> document_id,
                    processing_type |-> processing_type,
                    priority |-> priority,
                    created_at |-> t]
        s1 == [s EXCEPT !.next = @ + 1,
                        !.start[document_id] = IF @ = NoTime THEN t ELSE @]
    IN  [state |-> IF priority = CRITICAL
                   THEN [s1 EXCEPT !.critical = Append(@, request)]
                   ELSE IF priority = STANDARD
                   THEN [s1 EXCEPT !.standard = Append(@, request)]
                   ELSE [s1 EXCEPT !.low = Append(@, request)],
         ret |-> request_id,
         error |-> ""]

\* request_processing: allocate or queue; any exception of the body is
\* caught and raised again as ResourceExhaustionError RESOURCE_REQUEST_FAILED
request_processing(s, document_id, processing_type, priority, t) ==
    LET r == IF can_allocate_immediately(s, processing_type)
             THEN allocate_resource(s, document_id, processing_type, t)
             ELSE queue_request(s, document_id, processing_type, priority, t)
    IN  IF r.error # ""
        THEN [r EXCEPT !.error = RESOURCE_REQUEST_FAILED]
        ELSE r

\* (mutant) the queues searched from the lowest priority up
process_next_queued_request_low_first(s, processing_type, t) ==
    LET Wanted(request) == request.processing_type = processing_type
        ic == FirstIndex(s.critical, Wanted)
        is == FirstIndex(s.standard, Wanted)
        il == FirstIndex(s.low, Wanted)
    IN  IF il # 0
        THEN allocate_resource([s EXCEPT !.low = RemoveAt(@, il)],
                               s.low[il].document_id, processing_type, t)
        ELSE IF is # 0
        THEN allocate_resource([s EXCEPT !.standard = RemoveAt(@, is)],
                               s.standard[is].document_id, processing_type, t)
        ELSE IF ic # 0
        THEN allocate_resource([s EXCEPT !.critical = RemoveAt(@, ic)],
                               s.critical[ic].document_id, processing_type, t)
        ELSE [state |-> s, ret |-> 0, error |-> ""]

\* _process_next_queued_request: the first request of the processing type,
\* looking through critical, standard, low in that order, leaves its queue
\* and is allocated under a new allocation id
process_next_queued_request(s, processing_type, t) ==
    LET Wanted(request) == request.processing_type = processing_type
        ic == FirstIndex(s.critical, Wanted)
        is == FirstIndex(s.standard, Wanted)
        il == FirstIndex(s.low, Wanted)
    IN  IF ic # 0
        THEN allocate_resource([s EXCEPT !.critical = RemoveAt(@, ic)],
                               s.critical[ic].document_id, processing_type, t)
        ELSE IF is # 0
        THEN allocate_resource([s EXCEPT !.standard = RemoveAt(@, is)],
                               s.standard[is].document_id, processing_type, t)
        ELSE IF il # 0
        THEN allocate_resource([s EXCEPT !.low = RemoveAt(@, il)],
                               s.low[il].document_id, processing_type, t)
        ELSE [state |-> s, ret |-> 0, error |-> ""]

\* (mutant) the slot freed without a look at the queues
release_resource_without_serving(s, request_id, t) ==
    IF request_id \in AllocationIds(s.gpu)
    THEN [state |-> [s EXCEPT !.gpu = {a \in @ : a.allocation_id # request_id}],
          ret |-> TRUE]
    ELSE IF request_id \in AllocationIds(s.ocr)
    THEN [state |-> [s EXCEPT !.ocr = {a \in @ : a.allocation_id # request_id}],
          ret |-> TRUE]
    ELSE [state |-> s, ret |-> FALSE]

\* release_resource: pop the allocation from the pool that holds the id,
\* then serve the queue; False for an id that is in neither pool
release_resource(s, request_id, t) ==
    IF request_id \in AllocationIds(s.gpu)
    THEN [state |-> process_next_queued_request(
                        [s EXCEPT !.gpu = {a \in @ : a.allocation_id # request_id}],
                        GPU_INTERPRETATION, t).state,
          ret |-> TRUE]
    ELSE IF request_id \in AllocationIds(s.ocr)
    THEN [state |-> process_next_queued_request(
                        [s EXCEPT !.ocr = {a \in @ : a.allocation_id # request_id}],
                        OCR_EXTRACTION, t).state,
          ret |-> TRUE]
    ELSE [state |-> s, ret |-> FALSE]

\* one pass of prevent_starvation over one queue: the requests of the
\* snapshot that have waited longer than the queue's maximum
Starved(queue, priority, t) ==
    SelectSeq(queue, LAMBDA request :
                        t - request.created_at > STARVATION_PREVENTION_MINUTES(priority))

NotStarved(queue, priority, t) ==
    SelectSeq(queue, LAMBDA request :
                        ~(t - request.created_at > STARVATION_PREVENTION_MINUTES(priority)))

\* prevent_starvation: low, then standard, then critical.  Every starved
\* request is removed from its queue; one from low is put at the front of
\* standard, one from standard at the front of critical, and for one from
\* critical neither branch of the if/elif applies.  Requests moved into a
\* queue are part of that queue's snapshot when its turn comes.
prevent_starvation(s, t) ==
    LET lowStarved == Starved(s.low, LOW, t)
        low1 == NotStarved(s.low, LOW, t)
        standard1 == Reverse(lowStarved) \o s.standard
        standardStarved == Starved(standard1, STANDARD, t)
        standard2 == NotStarved(standard1, STANDARD, t)
        critical1 == Reverse(standardStarved) \o s.critical
        criticalStarved == Starved(critical1, CRITICAL, t)
        critical2 == NotStarved(critical1, CRITICAL, t)
    IN  [state |-> [s EXCEPT !.low = low1, !.standard = standard2, !.critical = critical2],
         ret |-> Len(lowStarved) + Len(standardStarved) + Len(criticalStarved)]

----------------------------------------------------------------------------
(***************************************************************************)
(* Part 2: PipelineStateValidator and PipelineStateExecutor                *)
(* (state_machine.py)                                                      *)
(*                                                                         *)
(* A state is a member of one of two str-enums.  isinstance tells the two  *)
(* enums apart; dict lookup and == compare the string values, so the READY *)
(* members of the two enums are equal to each other.                       *)
(***************************************************************************)

DocState(v) == [enum |-> "PipelineDocumentState", value |-> v]
ImgState(v) == [enum |-> "PipelineImageState", value |-> v]

PipelineDocumentState ==
    {DocState(v) : v \in {"ingested", "normalized", "text_extracted", "images_extracted",
                          "partially_processed", "ready", "blocked", "failed"}}

PipelineImageState ==
    {ImgState(v) : v \in {"image_extracted", "hashed", "duplicate_checked",
                          "duplicate_linked", "unique", "ignored", "needs_interpretation",
                          "interpreted", "needs_hitl", "canonicalized", "ready"}}

TransitionTrigger ==
    {"extraction_complete", "normalization_complete", "hash_generated",
     "duplicate_analysis_complete", "ocr_complete", "vision_analysis_complete",
     "human_approval", "human_rejection", "human_ignore",
     "manual_override", "timeout_expired", "emergency_bypass",
     "completion_threshold_met", "critical_images_complete"}

StateTransition(from_state, trigger, to_state, preconditions) ==
    [from_state |-> from_state, trigger |-> trigger, to_state |-> to_state,
     preconditions |-> preconditions, validation_required |-> TRUE]

\* PipelineStateValidator.document_transitions
document_transitions ==
    { StateTransition(DocState("ingested"), "normalization_complete",
                      DocState("normalized"), {"document_format_validated"}),
      StateTransition(DocState("normalized"), "extraction_complete",
                      DocState("text_extracted"), {"text_extraction_successful"}),
      StateTransition(DocState("text_extracted"), "extraction_complete",
                      DocState("images_extracted"), {"image_extraction_complete"}),
      StateTransition(DocState("images_extracted"), "completion_threshold_met",
                      DocState("partially_processed"),
                      {"completion_70_percent", "critical_images_complete"}),
      StateTransition(DocState("partially_processed"), "completion_threshold_met",
                      DocState("ready"),
                      {"completion_90_percent", "no_blocked_images"}) }

\* PipelineStateValidator.image_transitions
image_transitions ==
    { StateTransition(ImgState("image_extracted"), "hash_generated",
                      ImgState("hashed"), {"perceptual_hash_computed"}),
      StateTransition(ImgState("hashed"), "duplicate_analysis_complete",
                      ImgState("duplicate_checked"), {"similarity_analysis_complete"}) }

\* a context without completion_percentage
None == -1

\* _validate_preconditions: the error code of the first precondition that
\* fails, "" when none does (only the two completion conditions are examined)
validate_preconditions(context, transition) ==
    IF /\ "completion_90_percent" \in transition.preconditions
       /\ (context.completion_percentage = None \/ context.completion_percentage < 90)
    THEN "COMPLETION_THRESHOLD_NOT_MET"
    ELSE IF /\ "completion_70_percent" \in transition.preconditions
            /\ (context.completion_percentage = None \/ context.completion_percentage < 70)
    THEN "COMPLETION_THRESHOLD_NOT_MET"
    ELSE ""

\* (mutant) the preconditions examined before the target state
validate_transition_preconditions_first(context, from_state, trigger, to_state) ==
    LET transitions_map == IF from_state.enum = "PipelineDocumentState"
                           THEN document_transitions ELSE image_transitions
        registered == {t \in transitions_map : t.from_state.value = from_state.value}
        matching == {t \in registered : t.trigger = trigger}
    IN  IF registered = {}
        THEN "INVALID_FROM_STATE"
        ELSE IF matching = {}
        THEN "INVALID_TRANSITION"
        ELSE LET transition == CHOOSE t \in matching : TRUE
             IN  IF /\ transition.validation_required
                    /\ validate_preconditions(context, transition) # ""
                 THEN validate_preconditions(context, transition)
                 ELSE IF transition.to_state.value # to_state.value
                 THEN "TARGET_STATE_MISMATCH"
                 ELSE ""

\* validate_transition: "" when it returns True, else the error_code of the
\* StateTransitionError it raises
validate_transition(context, from_state, trigger, to_state) ==
    LET transitions_map == IF from_state.enum = "PipelineDocumentState"
                           THEN document_transitions ELSE image_transitions
        registered == {t \in transitions_map : t.from_state.value = from_state.value}
        matching == {t \in registered : t.trigger = trigger}
    IN  IF registered = {}
        THEN "INVALID_FROM_STATE"
        ELSE IF matching = {}
        THEN "INVALID_TRANSITION"
        ELSE LET transition == CHOOSE t \in matching : TRUE
             IN  IF transition.to_state.value # to_state.value
                 THEN "TARGET_STATE_MISMATCH"
                 ELSE IF transition.validation_required
                 THEN validate_preconditions(context, transition)
                 ELSE ""

\* _execute_transition_with_audit: the AuditEvent row added to the session
AuditEvent(context, from_state, trigger, to_state) ==
    [event_type |-> "state_transition", resource_id |-> context.entity_id,
     from_state |-> from_state, trigger |-> trigger, to_state |-> to_state]

\* (mutant) the session opened and the audit row written before validation
execute_transition_audit_first(context, from_state, trigger, to_state, db_ok) ==
    LET code == validate_transition(context, from_state, trigger, to_state)
        row == IF db_ok THEN <<AuditEvent(context, from_state, trigger, to_state)>>
               ELSE <<>>
    IN  IF code # ""
        THEN [raised |-> TRUE, error_code |-> code, success |-> FALSE,
              sessions |-> 1, audit |-> row]
        ELSE IF db_ok
        THEN [raised |-> FALSE, error_code |-> "", success |-> TRUE,
              sessions |-> 1, audit |-> row]
        ELSE [raised |-> TRUE, error_code |-> "EXECUTION_ERROR", success |-> FALSE,
              sessions |-> 1, audit |-> <<>>]

\* execute_transition: validation first; a session is opened only after it
\* passed; the audit row is committed when the database calls succeed, and
\* any other exception is raised again as EXECUTION_ERROR
execute_transition(context, from_state, trigger, to_state, db_ok) ==
    LET code == validate_transition(context, from_state, trigger, to_state)
    IN  IF code # ""
        THEN [raised |-> TRUE, error_code |-> code, success |-> FALSE,
              sessions |-> 0, audit |-> <<>>]
        ELSE IF db_ok
        THEN [raised |-> FALSE, error_code |-> "", success |-> TRUE,
              sessions |-> 1,
              audit |-> <<AuditEvent(context, from_state, trigger, to_state)>>]
        ELSE [raised |-> TRUE, error_code |-> "EXECUTION_ERROR", success |-> FALSE,
              sessions |-> 1, audit |-> <<>>]

\* the completion percentages a context carries
CompletionInputs == {None, 69, 70, 89, 90}

NoResult == [op |-> "", raised |-> FALSE, error_code |-> "", success |-> FALSE]

----------------------------------------------------------------------------
(***************************************************************************)
(* Part 3: DocumentCompletionCalculator (completion_calculator.py)         *)
(*                                                                         *)
(* Percentages are exact rationals num/den.  Weights are counted in tenths *)
(* (2.0, 1.0, 0.1 become 20, 10, 1) and hours in tenths of an hour.        *)
(***************************************************************************)

READY_THRESHOLD == 90
PARTIALLY_PROCESSED_THRESHOLD == 70
CRITICAL_COMPLETION_REQUIRED == 100

\* the 24.0 hours of _determine_document_state, in tenths of an hour
TIMEOUT_TENTHS == 240

\* the processing_time_hours = 2.5 that _calculate_metrics reports, in tenths
PROCESSING_TIME_TENTHS == 25

DiagramType == {"critical", "supporting", "decorative"}

DIAGRAM_WEIGHTS(diagram_type) ==
    CASE diagram_type = "critical" -> 20
      [] diagram_type = "supporting" -> 10
      [] diagram_type = "decorative" -> 1

COMPLETE_STATES ==
    {ImgState("ready"), ImgState("duplicate_linked"), ImgState("ignored"),
     ImgState("canonicalized")}

\* PipelineImageState declares no BLOCKED member; "blocked" stands for the
\* second element the class body names, a state no stored image carries
BLOCKING_STATES == {ImgState("needs_hitl"), ImgState("blocked")}

\* an ImageCompletionStatus as the image source builds it: the weight is the
\* weight of its diagram type, is_complete tells a complete state
ImageCompletionStatus(state, diagram_type) ==
    [state |-> state, diagram_type |-> diagram_type,
     completion_weight |-> DIAGRAM_WEIGHTS(diagram_type),
     is_complete |-> state \in COMPLETE_STATES]

Rat(n, d) == [num |-> n, den |-> d]
RatGE(x, k) == x.num >= k * x.den
RatLE(x, k) == x.num <= k * x.den
RatEq(x, k) == x.num = k * x.den
RatLeq(x, y) == x.num * y.den <= y.num * x.den

RECURSIVE Sum(_)
Sum(numbers) == IF numbers = <<>> THEN 0 ELSE Head(numbers) + Sum(Tail(numbers))

\* sum(Term(img) for img in images)
SumOver(images, Term(_)) == Sum([i \in 1..Len(images) |-> Term(images[i])])

\* (mutant) the weight of the images that are not complete over the total
weighted_completion_of_incomplete(images) ==
    LET total_weight == SumOver(images, LAMBDA img : img.completion_weight)
        completed_weight ==
            SumOver(images, LAMBDA img : IF img.is_complete THEN 0 ELSE img.completion_weight)
    IN  IF total_weight > 0 THEN Rat(completed_weight * 100, total_weight) ELSE Rat(100, 1)

\* _calculate_metrics, lines 244-251
weighted_completion(images) ==
    LET total_weight == SumOver(images, LAMBDA img : img.completion_weight)
        completed_weight ==
            SumOver(images, LAMBDA img : IF img.is_complete THEN img.completion_weight ELSE 0)
    IN  IF total_weight > 0 THEN Rat(completed_weight * 100, total_weight) ELSE Rat(100, 1)

\* _calculate_metrics
calculate_metrics(images) ==
    LET total_images == Len(images)
        completed_images == SumOver(images, LAMBDA img : IF img.is_complete THEN 1 ELSE 0)
        critical_images == SelectSeq(images, LAMBDA img : img.diagram_type = "critical")
        critical_total == Len(critical_images)
        critical_complete ==
            SumOver(critical_images, LAMBDA img : IF img.is_complete THEN 1 ELSE 0)
    IN  [total_images |-> total_images,
         completed_images |-> completed_images,
         completion_percentage |->
            IF total_images > 0 THEN Rat(completed_images * 100, total_images)
            ELSE Rat(100, 1),
         critical_images_total |-> critical_total,
         critical_images_complete |-> critical_complete,
         critical_completion_percentage |->
            IF critical_total > 0 THEN Rat(critical_complete * 100, critical_total)
            ELSE Rat(100, 1),
         weighted_completion |-> weighted_completion(images),
         blocked_images |->
            SumOver(images, LAMBDA img : IF img.state \in BLOCKING_STATES THEN 1 ELSE 0),
         processing_time_hours |-> PROCESSING_TIME_TENTHS,
         recommended_state |-> DocState("images_extracted")]

\* (mutant) the completion thresholds examined before the blocking conditions
determine_document_state_thresholds_first(metrics) ==
    IF /\ RatGE(metrics.completion_percentage, READY_THRESHOLD)
       /\ RatGE(metrics.critical_completion_percentage, CRITICAL_COMPLETION_REQUIRED)
    THEN DocState("ready")
    ELSE IF metrics.blocked_images > 0
    THEN DocState("blocked")
    ELSE IF metrics.processing_time_hours >= TIMEOUT_TENTHS
    THEN DocState("blocked")
    ELSE IF /\ RatGE(metrics.completion_percentage, PARTIALLY_PROCESSED_THRESHOLD)
            /\ RatGE(metrics.critical_completion_percentage, CRITICAL_COMPLETION_REQUIRED)
    THEN DocState("partially_processed")
    ELSE DocState("images_extracted")

\* (mutant) the thresholds on the overall completion alone
determine_document_state_overall_only(metrics) ==
    IF metrics.blocked_images > 0
    THEN DocState("blocked")
    ELSE IF metrics.processing_time_hours >= TIMEOUT_TENTHS
    THEN DocState("blocked")
    ELSE IF RatGE(metrics.completion_percentage, READY_THRESHOLD)
    THEN DocState("ready")
    ELSE IF RatGE(metrics.completion_percentage, PARTIALLY_PROCESSED_THRESHOLD)
    THEN DocState("partially_processed")
    ELSE DocState("images_extracted")

\* _determine_document_state
determine_document_state(metrics) ==
    IF metrics.blocked_images > 0
    THEN DocState("blocked")
    ELSE IF metrics.processing_time_hours >= TIMEOUT_TENTHS
    THEN DocState("blocked")
    ELSE IF /\ RatGE(metrics.completion_percentage, READY_THRESHOLD)
            /\ RatGE(metrics.critical_completion_percentage, CRITICAL_COMPLETION_REQUIRED)
    THEN DocState("ready")
    ELSE IF /\ RatGE(metrics.completion_percentage, PARTIALLY_PROCESSED_THRESHOLD)
            /\ RatGE(metrics.critical_completion_percentage, CRITICAL_COMPLETION_REQUIRED)
    THEN DocState("partially_processed")
    ELSE DocState("images_extracted")

\* (mutant) the metrics of a document without images left at the state that
\* _calculate_metrics starts from
create_no_images_metrics_still_processing ==
    [total_images |-> 0, completed_images |-> 0, completion_percentage |-> Rat(100, 1),
     critical_images_total |-> 0, critical_images_complete |-> 0,
     critical_completion_percentage |-> Rat(100, 1), weighted_completion |-> Rat(100, 1),
     blocked_images |-> 0, processing_time_hours |-> 0,
     recommended_state |-> DocState("images_extracted")]

\* _create_no_images_metrics
create_no_images_metrics ==
    [total_images |-> 0, completed_images |-> 0, completion_percentage |-> Rat(100, 1),
     critical_images_total |-> 0, critical_images_complete |-> 0,
     critical_completion_percentage |-> Rat(100, 1), weighted_completion |-> Rat(100, 1),
     blocked_images |-> 0, processing_time_hours |-> 0,
     recommended_state |-> DocState("ready")]

NoMetrics == [raised |-> FALSE, error_code |-> "", metrics |-> <<>>]

\* calculate_completion: the no-images metrics for an empty image list,
\* otherwise the metrics with the state _determine_document_state
\* recommends; CompletionThresholdError CALCULATION_ERROR when the session
\* cannot be had
calculate_completion(images, session_ok) ==
    IF ~session_ok
    THEN [raised |-> TRUE, error_code |-> "CALCULATION_ERROR", metrics |-> <<>>]
    ELSE IF images = <<>>
    THEN [raised |-> FALSE, error_code |-> "", metrics |-> create_no_images_metrics]
    ELSE LET metrics == calculate_metrics(images)
         IN  [raised |-> FALSE, error_code |-> "",
              metrics |-> [metrics EXCEPT
                              !.recommended_state = determine_document_state(metrics)]]

----------------------------------------------------------------------------
(***************************************************************************)
(* Part 4: DiagramClassifier, SimilarityAnalyzer, PipelineCoordinator      *)
(* (coordination.py)                                                       *)
(*                                                                         *)
(* The extracted text of an image is given by what the classifier reads    *)
(* of it: how many of the seven critical and of the six decorative         *)
(* patterns it matches and whether it holds one of the title words.        *)
(* Confidences are counted in units of 1/420 (0.4/7 is 24, 1/6 is 70),     *)
(* aspect ratios in hundredths.  The perceptual hash is given by the       *)
(* number its md5 digest leaves modulo 100.                                *)
(***************************************************************************)

DUPLICATE == "duplicate"
NEAR_DUPLICATE == "near_duplicate"
UNIQUE == "unique"
SimilarityLevel == {DUPLICATE, NEAR_DUPLICATE, UNIQUE}

\* 0.85 and 0.65
HIGH_CONFIDENCE_THRESHOLD == 357
MEDIUM_CONFIDENCE_THRESHOLD == 273

\* len(CRITICAL_PATTERNS), len(DECORATIVE_PATTERNS)
CRITICAL_PATTERNS == 7
DECORATIVE_PATTERNS == 6

DUPLICATE_THRESHOLD == 95
NEAR_DUPLICATE_THRESHOLD == 80

Min(a, b) == IF a <= b THEN a ELSE b

\* _check_patterns, times 420: matches / total_patterns
check_patterns(matches, total_patterns) == (matches * 420) \div total_patterns

DiagramClassification(diagram_type, confidence, auto_classified, requires_hitl) ==
    [raised |-> FALSE, diagram_type |-> diagram_type, confidence |-> confidence,
     auto_classified |-> auto_classified, requires_hitl |-> requires_hitl]

\* _apply_classification_rules
apply_classification_rules(md) ==
    LET critical_score == check_patterns(md.critical_matches, CRITICAL_PATTERNS)
        c1 == IF critical_score > 0 THEN (critical_score * 4) \div 10 ELSE 0
        confidence == IF md.page_number <= 1 /\ md.title_word THEN c1 + 126 ELSE c1
        decorative_score == check_patterns(md.decorative_matches, DECORATIVE_PATTERNS)
    IN  IF decorative_score > 0
        THEN DiagramClassification("decorative", Min(decorative_score, 399),
                                   decorative_score >= MEDIUM_CONFIDENCE_THRESHOLD,
                                   decorative_score < MEDIUM_CONFIDENCE_THRESHOLD)
        ELSE IF md.file_size_kb < 10 \/ md.aspect_ratio > 1000 \/ md.aspect_ratio < 10
        THEN DiagramClassification("decorative", 336, TRUE, FALSE)
        ELSE IF confidence >= HIGH_CONFIDENCE_THRESHOLD
        THEN DiagramClassification("critical", Min(confidence, 399), TRUE, FALSE)
        ELSE IF confidence >= MEDIUM_CONFIDENCE_THRESHOLD
        THEN DiagramClassification("critical", Min(confidence, 399), FALSE, TRUE)
        ELSE DiagramClassification("supporting", Min(confidence, 399),
                                   confidence > 126, ~(confidence > 126))

\* image_metadata that is no dict (None): .get raises
NoMetadata == [valid |-> FALSE]

\* classify_diagram: any exception of the rules is raised again as
\* ClassificationError CLASSIFICATION_ERROR
classify_diagram(image_metadata) ==
    IF ~image_metadata.valid
    THEN [raised |-> TRUE, error_code |-> "CLASSIFICATION_ERROR"]
    ELSE apply_classification_rules(image_metadata)

\* a perceptual hash that is no str (None): .encode raises
NoHash == [valid |-> FALSE]

\* _calculate_mock_similarity, from int(md5(...)[:8], 16) % 100
calculate_mock_similarity(base_score) ==
    IF 75 <= base_score /\ base_score <= 85 THEN base_score + 10
    ELSE IF 90 <= base_score /\ base_score <= 95 THEN base_score + 5
    ELSE base_score

\* hash(perceptual_hash)[:8]: hash() returns an int, and an int cannot be
\* subscripted, so building canonical_match_id raises TypeError
CanonicalMatchIdBuilt == FALSE

SimilarityAnalysis(similarity_level, similarity_score, matched, requires_hitl, failed) ==
    [similarity_level |-> similarity_level, similarity_score |-> similarity_score,
     canonical_match |-> matched, requires_hitl |-> requires_hitl, error |-> failed]

\* the except branch of analyze_similarity
similarity_failed == SimilarityAnalysis(UNIQUE, 0, FALSE, FALSE, TRUE)

\* analyze_similarity: never raises; any exception of the body gives the
\* "unique" analysis with score 0.0
analyze_similarity(perceptual_hash) ==
    IF ~perceptual_hash.valid
    THEN similarity_failed
    ELSE LET similarity_score == calculate_mock_similarity(perceptual_hash.base_score)
         IN  IF similarity_score >= DUPLICATE_THRESHOLD
             THEN IF CanonicalMatchIdBuilt
                  THEN SimilarityAnalysis(DUPLICATE, similarity_score, TRUE, FALSE, FALSE)
                  ELSE similarity_failed
             ELSE IF similarity_score >= NEAR_DUPLICATE_THRESHOLD
             THEN IF CanonicalMatchIdBuilt
                  THEN SimilarityAnalysis(NEAR_DUPLICATE, similarity_score, TRUE, TRUE, FALSE)
                  ELSE similarity_failed
             ELSE SimilarityAnalysis(UNIQUE, similarity_score, FALSE, FALSE, FALSE)

CoordinationDecision(recommended_state, recommended_trigger, classification, similarity, processing_priority, hitl_task_required, is_fallback) ==
    [recommended_state |-> recommended_state, recommended_trigger |-> recommended_trigger,
     diagram_classification |-> classification, similarity_analysis |-> similarity,
     processing_priority |-> processing_priority,
     hitl_task_required |-> hitl_task_required, fallback |-> is_fallback]

\* the processing priority part of _make_coordination_decision
processing_priority_of(classification, similarity) ==
    IF classification.diagram_type = "critical" THEN CRITICAL
    ELSE IF \/ similarity.similarity_level = DUPLICATE
            \/ classification.diagram_type = "supporting"
    THEN STANDARD
    ELSE LOW

\* (mutant) the classifier's request for review honoured for duplicates too
make_coordination_decision_classifier_first(classification, similarity) ==
    IF classification.requires_hitl \/ similarity.similarity_level = NEAR_DUPLICATE
    THEN CoordinationDecision(ImgState("needs_hitl"), "vision_analysis_complete",
                              classification, similarity,
                              processing_priority_of(classification, similarity),
                              TRUE, FALSE)
    ELSE IF similarity.similarity_level = DUPLICATE
    THEN CoordinationDecision(ImgState("duplicate_linked"), "duplicate_analysis_complete",
                              classification, similarity,
                              processing_priority_of(classification, similarity),
                              FALSE, FALSE)
    ELSE CoordinationDecision(ImgState("needs_interpretation"),
                              "duplicate_analysis_complete", classification, similarity,
                              processing_priority_of(classification, similarity),
                              FALSE, FALSE)

\* _make_coordination_decision
make_coordination_decision(classification, similarity) ==
    IF similarity.similarity_level = DUPLICATE
    THEN CoordinationDecision(ImgState("duplicate_linked"), "duplicate_analysis_complete",
                              classification, similarity,
                              processing_priority_of(classification, similarity),
                              FALSE, FALSE)
    ELSE IF similarity.similarity_level = NEAR_DUPLICATE
    THEN CoordinationDecision(ImgState("needs_hitl"), "duplicate_analysis_complete",
                              classification, similarity,
                              processing_priority_of(classification, similarity),
                              TRUE, FALSE)
    ELSE IF classification.requires_hitl
    THEN CoordinationDecision(ImgState("needs_hitl"), "vision_analysis_complete",
                              classification, similarity,
                              processing_priority_of(classification, similarity),
                              TRUE, FALSE)
    ELSE CoordinationDecision(ImgState("needs_interpretation"),
                              "duplicate_analysis_complete", classification, similarity,
                              processing_priority_of(classification, similarity),
                              FALSE, FALSE)

\* _create_fallback_decision
create_fallback_decision ==
    CoordinationDecision(ImgState("needs_hitl"), "manual_override",
                         DiagramClassification("supporting", 0, FALSE, TRUE),
                         SimilarityAnalysis(UNIQUE, 0, FALSE, TRUE, FALSE),
                         STANDARD, TRUE, TRUE)

\* coordinate_image_processing: the fallback decision when the body raises
coordinate_image_processing(image_metadata, perceptual_hash) ==
    LET classification == classify_diagram(image_metadata)
    IN  IF classification.raised
        THEN create_fallback_decision
        ELSE make_coordination_decision(classification,
                                        analyze_similarity(perceptual_hash))

----------------------------------------------------------------------------
(***************************************************************************)
(* Part 5: ManualOverrideSystem (manual_overrides.py) with the             *)
(* PipelineOverrideLogger it writes to (override_logging.py)               *)
(*                                                                         *)
(* A text field of a request is given by its length and by how many of its *)
(* characters are surrounding whitespace.  The administrator is given by   *)
(* what the user table holds for administrator_id.  Identifiers of         *)
(* documents and images are small integers, NoId for None.                 *)
(***************************************************************************)

EmergencyLevel == {"low", "medium", "high", "critical"}

OverrideScope == {"single_document", "single_image", "document_batch", "system_wide"}

\* _min_justification_length, _min_outcome_length, _min_rollback_plan_length
MinJustificationLength == 100
MinOutcomeLength == 50
MinRollbackPlanLength == 50

\* PipelineOverrideLogger._minimum_justification_length, _maximum_...
LoggerMinimumJustificationLength == 50
LoggerMaximumJustificationLength == 2000

NoId == 0

Text(length, padding) == [len |-> length, padding |-> padding]

\* len(text.strip())
StrippedLen(text) == text.len - text.padding

\* the state names each enum accepts
DocumentStateValues == {st.value : st \in PipelineDocumentState}
ImageStateValues == {st.value : st \in PipelineImageState}

\* _validate_administrator_authorization: admin_user is None and both
\* permission checks are commented out; for a critical request
\* admin_user.is_superuser is read on None, which raises AttributeError
validate_administrator_authorization(request) ==
    IF request.emergency_level = "critical" THEN "AttributeError" ELSE ""

\* _validate_target_state
validate_target_state(request) ==
    IF /\ request.document_id # NoId
       /\ request.target_state # ""
       /\ request.target_state \notin DocumentStateValues
    THEN "OverrideValidationError"
    ELSE IF /\ request.image_id # NoId
            /\ request.target_state # ""
            /\ request.target_state \notin ImageStateValues
    THEN "OverrideValidationError"
    ELSE ""

\* (mutant) the justification measured before trimming
validate_override_request_untrimmed(request) ==
    IF request.justification.len < MinJustificationLength
    THEN "OverrideValidationError"
    ELSE IF StrippedLen(request.expected_outcome) < MinOutcomeLength
    THEN "OverrideValidationError"
    ELSE IF /\ request.risk_level \in {"medium", "high"}
            /\ StrippedLen(request.rollback_plan) < MinRollbackPlanLength
    THEN "OverrideValidationError"
    ELSE IF request.scope = "single_document" /\ request.document_id = NoId
    THEN "OverrideValidationError"
    ELSE IF request.scope = "single_image" /\ request.image_id = NoId
    THEN "OverrideValidationError"
    ELSE IF request.scope = "document_batch" /\ request.document_ids = <<>>
    THEN "OverrideValidationError"
    ELSE IF request.target_state # ""
    THEN validate_target_state(request)
    ELSE ""

\* _validate_override_request: "" when the request passes
validate_override_request(request) ==
    IF StrippedLen(request.justification) < MinJustificationLength
    THEN "OverrideValidationError"
    ELSE IF StrippedLen(request.expected_outcome) < MinOutcomeLength
    THEN "OverrideValidationError"
    ELSE IF /\ request.risk_level \in {"medium", "high"}
            /\ StrippedLen(request.rollback_plan) < MinRollbackPlanLength
    THEN "OverrideValidationError"
    ELSE IF request.scope = "single_document" /\ request.document_id = NoId
    THEN "OverrideValidationError"
    ELSE IF request.scope = "single_image" /\ request.image_id = NoId
    THEN "OverrideValidationError"
    ELSE IF request.scope = "document_batch" /\ request.document_ids = <<>>
    THEN "OverrideValidationError"
    ELSE IF request.target_state # ""
    THEN validate_target_state(request)
    ELSE ""

\* log_override_request: ValueError for a justification outside 50..2000
\* characters or an administrator the user table does not hold; otherwise
\* the audit record is committed
log_override_request(request) ==
    IF StrippedLen(request.justification) < LoggerMinimumJustificationLength
    THEN "ValueError"
    ELSE IF request.justification.len > LoggerMaximumJustificationLength
    THEN "ValueError"
    ELSE IF ~request.administrator.exists
    THEN "ValueError"
    ELSE ""

\* StateTransition(entity_type=..., entity_id=..., metadata=...): the
\* dataclass of state_machine.py has none of these fields, so the
\* constructor raises TypeError
OverrideTransitionBuilt == FALSE

\* state_executor.execute_transition(transition, self.db): the executor
\* takes (context, from_state, trigger, to_state), so the call raises
\* TypeError
ExecutorTakesTransition == FALSE

\* _execute_document_override and _execute_image_override for one entity:
\* ok when it returned, with the states the database then holds
execute_entity_override(request, entity_id, states) ==
    IF entity_id = NoId \/ request.target_state = ""
    THEN [ok |-> FALSE, states |-> states]
    ELSE IF states[entity_id] = "absent"
    THEN [ok |-> FALSE, states |-> states]
    ELSE IF ~OverrideTransitionBuilt
    THEN [ok |-> FALSE, states |-> states]
    ELSE IF request.force_transition
    THEN [ok |-> TRUE, states |-> [states EXCEPT ![entity_id] = request.target_state]]
    ELSE IF ~ExecutorTakesTransition
    THEN [ok |-> FALSE, states |-> states]
    ELSE [ok |-> TRUE, states |-> states]

\* (mutant) the loop left at the first document that fails
RECURSIVE batch_attempts_until_failure(_, _, _)
batch_attempts_until_failure(request, document_ids, states) ==
    IF document_ids = <<>>
    THEN [results |-> <<>>, errors |-> <<>>, states |-> states]
    ELSE LET one == execute_entity_override(request, Head(document_ids), states)
             rest == batch_attempts_until_failure(request, Tail(document_ids), one.states)
         IN  IF one.ok
             THEN [results |-> <<Head(document_ids)>> \o rest.results,
                   errors |-> rest.errors, states |-> rest.states]
             ELSE [results |-> <<>>, errors |-> <<Head(document_ids)>>,
                   states |-> one.states]

\* the documents of the list, in order, with the states after each attempt
RECURSIVE batch_attempts(_, _, _)
batch_attempts(request, document_ids, states) ==
    IF document_ids = <<>>
    THEN [results |-> <<>>, errors |-> <<>>, states |-> states]
    ELSE LET one == execute_entity_override(request, Head(document_ids), states)
             rest == batch_attempts(request, Tail(document_ids), one.states)
         IN  [results |-> IF one.ok THEN <<Head(document_ids)>> \o rest.results
                          ELSE rest.results,
              errors |-> IF one.ok THEN rest.errors
                         ELSE <<Head(document_ids)>> \o rest.errors,
              states |-> rest.states]

\* _execute_batch_override
execute_batch_override(request, states) ==
    IF request.document_ids = <<>> \/ request.target_state = ""
    THEN [ok |-> FALSE, states |-> states]
    ELSE LET b == batch_attempts(request, request.document_ids, states)
         IN  [ok |-> ~(b.errors # <<>> /\ b.results = <<>>), states |-> b.states]

\* _execute_system_override
execute_system_override(request, states) ==
    [ok |-> request.emergency_level = "critical", states |-> states]

\* _execute_override: the steps taken, whether it returned, the states
execute_override(request, states) ==
    LET r == CASE request.scope = "single_document" ->
                    execute_entity_override(request, request.document_id, states)
               [] request.scope = "single_image" ->
                    execute_entity_override(request, request.image_id, states)
               [] request.scope = "document_batch" ->
                    execute_batch_override(request, states)
               [] request.scope = "system_wide" ->
                    execute_system_override(request, states)
    IN  [ok |-> r.ok, states |-> r.states,
         steps |-> IF ~r.ok /\ request.rollback_plan.len > 0
                   THEN <<[step |-> "execute"], [step |-> "rollback_attempt"]>>
                   ELSE <<[step |-> "execute"]>>]

\* (mutant) the execution outcome recorded before the execution is attempted
request_override_outcome_first(request, states, override_id) ==
    LET e == execute_override(request, states)
    IN  IF validate_administrator_authorization(request) # ""
        THEN [raised |-> validate_administrator_authorization(request),
              override_id |-> NoId, trail |-> <<>>, states |-> states]
        ELSE IF validate_override_request(request) # ""
        THEN [raised |-> "OverrideValidationError",
              override_id |-> NoId, trail |-> <<>>, states |-> states]
        ELSE IF log_override_request(request) # ""
        THEN [raised |-> "ValueError",
              override_id |-> NoId, trail |-> <<>>, states |-> states]
        ELSE [raised |-> IF e.ok THEN "" ELSE "OverrideExecutionError",
              override_id |-> IF e.ok THEN override_id ELSE NoId,
              trail |-> <<[step |-> "requested", override_id |-> override_id],
                          [step |-> "execution", success |-> e.ok]>>
                        \o e.steps
                        \o <<[step |-> "completion",
                              status |-> IF e.ok THEN "success" ELSE "failed",
                              rollback_performed |-> IF e.ok THEN "no" ELSE "partial"]>>,
              states |-> e.states]

\* request_override: the exception raised ("" when it returned), the
\* override id returned, the audit writes and execution steps in order, and
\* the states the database then holds
request_override(request, states, override_id) ==
    LET e == execute_override(request, states)
    IN  IF validate_administrator_authorization(request) # ""
        THEN [raised |-> validate_administrator_authorization(request),
              override_id |-> NoId, trail |-> <<>>, states |-> states]
        ELSE IF validate_override_request(request) # ""
        THEN [raised |-> "OverrideValidationError",
              override_id |-> NoId, trail |-> <<>>, states |-> states]
        ELSE IF log_override_request(request) # ""
        THEN [raised |-> "ValueError",
              override_id |-> NoId, trail |-> <<>>, states |-> states]
        ELSE [raised |-> IF e.ok THEN "" ELSE "OverrideExecutionError",
              override_id |-> IF e.ok THEN override_id ELSE NoId,
              trail |-> <<[step |-> "requested", override_id |-> override_id]>>
                        \o e.steps
                        \o <<[step |-> "execution", success |-> e.ok],
                             [step |-> "completion",
                              status |-> IF e.ok THEN "success" ELSE "failed",
                              rollback_performed |-> IF e.ok THEN "no" ELSE "partial"]>>,
              states |-> e.states]

----------------------------------------------------------------------------
(***************************************************************************)
(* Part 6: PipelineCoordinationSystem.process_document                     *)
(* (coordination_system.py)                                                *)
(*                                                                         *)
(* should_process_immediately, allocate_resource, execute_transition and   *)
(* publish_event are calls on the system's component attributes; what each *)
(* call does is an input: it returns a truthy value, a falsy value, or     *)
(* raises.                                                                 *)
(***************************************************************************)

\* StateTransition(entity_type="document", entity_id=..., metadata=...):
\* the dataclass of state_machine.py has none of these fields, so the
\* constructor raises TypeError
ProcessingTransitionBuilt == FALSE

\* process_document: the value returned and the documents that hold a
\* resource afterwards
process_document(document_id, outcome, held) ==
    IF outcome.should_process = "raises"
    THEN [returned |-> FALSE, held |-> held]
    ELSE IF outcome.should_process = "falsy"
    THEN [returned |-> TRUE, held |-> held]
    ELSE IF outcome.allocation = "raises"
    THEN [returned |-> FALSE, held |-> held]
    ELSE IF outcome.allocation = "falsy"
    THEN [returned |-> FALSE, held |-> held]
    ELSE IF ~ProcessingTransitionBuilt
    THEN [returned |-> FALSE, held |-> held \cup {document_id}]
    ELSE IF outcome.transition = "raises"
    THEN [returned |-> FALSE, held |-> held \cup {document_id}]
    ELSE IF outcome.transition = "falsy"
    THEN [returned |-> FALSE, held |-> held \ {document_id}]
    ELSE IF outcome.publish = "raises"
    THEN [returned |-> FALSE, held |-> held \cup {document_id}]
    ELSE [returned |-> TRUE, held |-> held \cup {document_id}]

----------------------------------------------------------------------------
(***************************************************************************)
(* Part 7: EventPublisher (event_publisher.py)                             *)
(*                                                                         *)
(* The publisher runs on one asyncio event loop: a coroutine runs          *)
(* uninterrupted from one await to the next, and everything else that is   *)
(* ready (a caller of publish_event, a connection handler that adds or     *)
(* removes a client, the other deliveries of the same gather) may run      *)
(* while it is suspended.  One action is one such uninterrupted stretch.   *)
(***************************************************************************)

\* the payloads published: event id, type and the entity they are about
EventPayloads ==
    {[event_id |-> 1, event_type |-> "state_transition", document_id |-> 1],
     [event_id |-> 2, event_type |-> "error_occurred", document_id |-> 2]}

NoPayload == [event_id |-> 0, event_type |-> "", document_id |-> None]

\* the WebSocket connections that may register with the publisher
WebSocketClients == {"ws_a", "ws_b"}

\* EventSubscription; webhook_url "" stands for None
EventSubscription(id, types, filters, url, active, retries) ==
    [subscription_id |-> id, event_types |-> types, entity_filters |-> filters,
     webhook_url |-> url, active |-> active, max_retries |-> retries]

\* the subscriptions registered: one filtered on a document, one on an event
\* type only, one without a webhook URL, one switched off
Subscriptions ==
    {EventSubscription("by_document", {"state_transition", "error_occurred"},
                       {<<"document_id", 1>>}, "https://hook/1", TRUE, 2),
     EventSubscription("by_type", {"error_occurred"}, {}, "https://hook/2", TRUE, 1),
     EventSubscription("no_url", {"error_occurred"}, {}, "", TRUE, 1),
     EventSubscription("inactive", {"state_transition", "error_occurred"}, {},
                       "https://hook/4", FALSE, 1)}

SubscriptionIds == {s.subscription_id : s \in Subscriptions}

\* getattr(payload, filter_key, None)
getattr(payload, key) == IF key \in DOMAIN payload THEN payload[key] ELSE None

\* _should_deliver_to_subscription
should_deliver_to_subscription(payload, subscription) ==
    IF ~subscription.active THEN FALSE
    ELSE IF payload.event_type \notin subscription.event_types THEN FALSE
    ELSE \A f \in subscription.entity_filters : getattr(payload, f[1]) = f[2]

\* a delivery coroutine that does not exist
NoWebhookDelivery == [pc |-> "none", attempts |-> 0]

NoWebSocketDelivery ==
    [pc |-> "none", used |-> 0, ahead |-> {}, client |-> "",
     disconnected_clients |-> {}, sent |-> {}, stayed |-> {}]

\* _deliver_event up to its await: the coroutines handed to asyncio.gather
deliver_event(payload, clients, subscribers) ==
    [websockets |-> IF clients # {}
                    THEN [NoWebSocketDelivery EXCEPT !.pc = "created"]
                    ELSE NoWebSocketDelivery,
     webhooks |-> [id \in SubscriptionIds |->
                     IF \E s \in subscribers : /\ s.subscription_id = id
                                               /\ should_deliver_to_subscription(payload, s)
                     THEN [NoWebhookDelivery EXCEPT !.pc = "created"]
                     ELSE NoWebhookDelivery]]

\* the step of the set iterator of _deliver_to_websockets: RuntimeError when
\* the set has another size than when the iterator was made, the end of the
\* loop (and the removal of the failed clients) when no entry lies ahead,
\* otherwise a send to one of the clients ahead.  The order of a set is not
\* defined, so any client ahead may be the next.
websocket_iteration(w, clients) ==
    IF Cardinality(clients) # w.used
    THEN {[delivery |-> [w EXCEPT !.pc = "raised", !.client = ""], clients |-> clients]}
    ELSE IF w.ahead = {}
    THEN {[delivery |-> [w EXCEPT !.pc = "returned", !.client = ""],
           clients |-> clients \ w.disconnected_clients]}
    ELSE {[delivery |-> [w EXCEPT !.pc = "sending", !.client = c,
                                  !.ahead = @ \ {c}, !.sent = @ \cup {c}],
           clients |-> clients] : c \in w.ahead}

\* the loop of _deliver_to_webhook after a failed attempt: the next attempt,
\* a sleep before it, or the end of the loop.  Only the except branch sleeps.
webhook_after_failure(d, subscription, failure) ==
    IF d.attempts >= subscription.max_retries + 1
    THEN [d EXCEPT !.pc = "failed"]
    ELSE IF failure = "exception"
    THEN [d EXCEPT !.pc = "backoff"]
    ELSE [d EXCEPT !.pc = "posting", !.attempts = @ + 1]

----------------------------------------------------------------------------
\* Initial states of the manager: the state __init__ builds, and states that
\* a run of request_processing calls at minute 0 leads to (the identifiers
\* of that run are negative): both pools full; both pools full and requests
\* of both types waiting in the three queues; both pools full and the queues
\* one request short of MAX_QUEUE_DEPTH.

WarmQueued(document_id, processing_type) ==
    [document_id |-> document_id, processing_type |-> processing_type]

WarmStarts ==
    { [gpu |-> 0, ocr |-> 0, critical |-> <<>>, standard |-> <<>>, low |-> <<>>],
      [gpu |-> MAX_GPU_SLOTS, ocr |-> MAX_OCR_SLOTS,
       critical |-> <<>>, standard |-> <<>>, low |-> <<>>],
      [gpu |-> MAX_GPU_SLOTS, ocr |-> MAX_OCR_SLOTS,
       critical |-> <<WarmQueued("d2", OCR_EXTRACTION)>>,
       standard |-> <<WarmQueued("d1", OCR_EXTRACTION), WarmQueued("d2", GPU_INTERPRETATION),
                      WarmQueued("d1", GPU_INTERPRETATION)>>,
       low |-> <<WarmQueued("d1", GPU_INTERPRETATION)>>],
      [gpu |-> MAX_GPU_SLOTS, ocr |-> MAX_OCR_SLOTS,
       critical |-> <<>>, standard |-> <<>>,
       low |-> [k \in 1..(MAX_QUEUE_DEPTH - 1) |-> WarmQueued("d1", GPU_INTERPRETATION)]] }

WarmAllocation(k, processing_type) ==
    [allocation_id |-> -k, processing_type |-> processing_type,
     request_id |-> -k, document_id |-> "d1"]

\* the k-th request of the initial run, the i-th of its queue
WarmRequests(queue, priority, k) ==
    [i \in 1..Len(queue) |->
        [request_id |-> -(k + i), document_id |-> queue[i].document_id,
         processing_type |-> queue[i].processing_type,
         priority |-> priority, created_at |-> 0]]

NoCall == [op |-> "init", processing_type |-> "", ret |-> 0, error |-> ""]

\* the fields after __init__ and a run w of requests at minute 0
ManagerAfter(w) ==
    /\ gpu_allocations = {WarmAllocation(k, GPU_INTERPRETATION) : k \in 1..w.gpu}
    /\ ocr_allocations = {WarmAllocation(w.gpu + k, OCR_EXTRACTION) : k \in 1..w.ocr}
    /\ critical_queue = WarmRequests(w.critical, CRITICAL, w.gpu + w.ocr)
    /\ standard_queue = WarmRequests(w.standard, STANDARD, w.gpu + w.ocr + Len(w.critical))
    /\ low_queue = WarmRequests(w.low, LOW,
                                w.gpu + w.ocr + Len(w.critical) + Len(w.standard))
    /\ document_start_times =
          [d \in Docs |->
              IF \/ d = "d1" /\ w.gpu + w.ocr > 0
                 \/ \E q \in {w.critical, w.standard, w.low} :
                        \E i \in 1..Len(q) : q[i].document_id = d
              THEN 0 ELSE NoTime]
    /\ timed_out_documents = {}
    /\ escalations = [d \in Docs |-> 0]
    /\ now = 0
    /\ next_id = 1
    /\ rm_call = NoCall

\* ResourceManager.__init__
ManagerConstructed ==
    ManagerAfter([gpu |-> 0, ocr |-> 0, critical |-> <<>>, standard |-> <<>>, low |-> <<>>])

\* no call made yet on the executor, no audit row written
NoInput == [entity_id |-> "", completion_percentage |-> None,
            from_state |-> DocState(""), trigger |-> "", to_state |-> DocState("")]

ExecutorConstructed ==
    /\ sm_input = NoInput
    /\ sm_pc = "idle"
    /\ sm_result = NoResult
    /\ audit_events = <<>>
    /\ sessions_opened = 0

\* no call made yet on the calculator
CalculatorConstructed ==
    /\ cc_pc = "idle"
    /\ cc_metrics = NoMetrics

\* PipelineCoordinator.__init__: no call made yet
CoordinatorConstructed ==
    /\ co_input = <<>>
    /\ co_pc = "idle"
    /\ co_result = <<>>

\* ManualOverrideSystem.__init__: no request made yet, no audit record
OverridesConstructed ==
    /\ ov_request = <<>>
    /\ ov_pc = "idle"
    /\ ov_result = <<>>
    /\ ov_trail = <<>>
    /\ ov_states = <<>>

\* PipelineCoordinationSystem.__init__: no document processed yet
SystemConstructed ==
    /\ pd_input = <<>>
    /\ pd_pc = "idle"
    /\ pd_result = FALSE
    /\ pd_held = {}

\* EventPublisher.__init__, and the subscriptions registered with subscribe
PublisherConstructed ==
    /\ ep_log = <<>>
    /\ ep_committed = {}
    /\ ep_refused = {}
    /\ ep_queue = <<>>
    /\ ep_taken = <<>>
    /\ ep_task = "none"
    /\ ep_http_session = FALSE
    /\ ep_pc = "idle"
    /\ ep_payload = NoPayload
    /\ ep_clients = {}
    /\ ep_seen = {}
    /\ ep_subscribers = Subscriptions
    /\ ep_ws = NoWebSocketDelivery
    /\ ep_wh = [id \in SubscriptionIds |-> NoWebhookDelivery]

\* no entity under way
NoEntity ==
    /\ lc_current = <<>>
    /\ lc_reached = {}
    /\ lc_call = <<>>

InitRM ==
    /\ \E w \in WarmStarts : ManagerAfter(w)
    /\ ExecutorConstructed
    /\ CalculatorConstructed
    /\ image_store = <<>>
    /\ CoordinatorConstructed
    /\ OverridesConstructed
    /\ SystemConstructed
    /\ NoEntity
    /\ PublisherConstructed

\* the state record written back to the fields
SetRMState(s) ==
    /\ gpu_allocations' = s.gpu
    /\ ocr_allocations' = s.ocr
    /\ critical_queue' = s.critical
    /\ standard_queue' = s.standard
    /\ low_queue' = s.low
    /\ document_start_times' = s.start
    /\ next_id' = s.next

----------------------------------------------------------------------------
\* Actions: one per public method, one for the passage of time

RequestProcessing(document_id, processing_type, priority) ==
    LET r == request_processing(RMState, document_id, processing_type, priority, now)
    IN  /\ r.state.next <= MaxNewIds + 1
        /\ SetRMState(r.state)
        /\ rm_call' = [op |-> "request_processing", processing_type |-> processing_type,
                       ret |-> r.ret, error |-> r.error]
        /\ UNCHANGED <<timed_out_documents, escalations, now, smVars, ccVars, coVars, ovVars, pdVars, lcVars, epVars>>

\* the ids a caller may pass to release_resource: any id handed out since
\* the initial state, an id never handed out (0), and the first GPU and the
\* first OCR allocation of the initial run
ReleaseIds == (0..(next_id - 1)) \cup {-1, -(MAX_GPU_SLOTS + 1)}

ReleaseResource(request_id) ==
    LET r == release_resource(RMState, request_id, now)
    IN  /\ r.state.next <= MaxNewIds + 1
        /\ SetRMState(r.state)
        /\ rm_call' = [op |-> "release_resource", processing_type |-> "",
                       ret |-> r.ret, error |-> ""]
        /\ UNCHANGED <<timed_out_documents, escalations, now, smVars, ccVars, coVars, ovVars, pdVars, lcVars, epVars>>

PreventStarvation ==
    LET r == prevent_starvation(RMState, now)
    IN  /\ SetRMState(r.state)
        /\ rm_call' = [op |-> "prevent_starvation", processing_type |-> "",
                       ret |-> r.ret, error |-> ""]
        /\ UNCHANGED <<timed_out_documents, escalations, now, smVars, ccVars, coVars, ovVars, pdVars, lcVars, epVars>>

\* (mutant) the escalation repeated by every check past the timeout
CheckDocumentTimeout_without_marker(document_id) ==
    LET known == document_start_times[document_id] # NoTime
        has_timed_out == known /\
            (now - document_start_times[document_id]) >= DOCUMENT_TIMEOUT_HOURS * 60
        first == has_timed_out
    IN  /\ timed_out_documents' = IF first THEN timed_out_documents \cup {document_id}
                                  ELSE timed_out_documents
        /\ escalations' = IF first THEN [escalations EXCEPT ![document_id] = @ + 1]
                          ELSE escalations
        /\ rm_call' = [op |-> "check_document_timeout", processing_type |-> "",
                       ret |-> has_timed_out, error |-> "",
                       document_id |-> document_id]
        /\ UNCHANGED <<gpu_allocations, ocr_allocations, critical_queue, standard_queue,
                       low_queue, document_start_times, now, next_id, smVars, ccVars, coVars, ovVars, pdVars, lcVars, epVars>>

\* check_document_timeout
CheckDocumentTimeout(document_id) ==
    LET known == document_start_times[document_id] # NoTime
        has_timed_out == known /\
            (now - document_start_times[document_id]) >= DOCUMENT_TIMEOUT_HOURS * 60
        first == has_timed_out /\ document_id \notin timed_out_documents
    IN  /\ timed_out_documents' = IF first THEN timed_out_documents \cup {document_id}
                                  ELSE timed_out_documents
        /\ escalations' = IF first THEN [escalations EXCEPT ![document_id] = @ + 1]
                          ELSE escalations
        /\ rm_call' = [op |-> "check_document_timeout", processing_type |-> "",
                       ret |-> has_timed_out, error |-> "",
                       document_id |-> document_id]
        /\ UNCHANGED <<gpu_allocations, ocr_allocations, critical_queue, standard_queue,
                       low_queue, document_start_times, now, next_id, smVars, ccVars, coVars, ovVars, pdVars, lcVars, epVars>>

\* the clock moves to a later instant
Tick ==
    /\ \E t \in Instants : t > now /\ now' = t
    /\ rm_call' = [NoCall EXCEPT !.op = "tick"]
    /\ UNCHANGED <<gpu_allocations, ocr_allocations, critical_queue, standard_queue,
                   low_queue, document_start_times, timed_out_documents, escalations,
                   next_id, smVars, ccVars, coVars, ovVars, pdVars, lcVars, epVars>>

NextRM ==
    \/ \E d \in RequestDocs, pt \in RequestedTypes, p \in Priority :
            RequestProcessing(d, pt, p)
    \/ \E id \in ReleaseIds : ReleaseResource(id)
    \/ PreventStarvation
    \/ Tick

SpecRM == InitRM /\ [][NextRM]_vars

----------------------------------------------------------------------------
\* Specification of the document timeout: requests and timeout checks for
\* both documents of Docs on a manager that starts empty, with the clock
\* moving through instants on both sides of the 24 hours.

TimeoutInstants == {0, 1, 1439, 1440, 2880}

InitTO ==
    /\ ManagerConstructed
    /\ ExecutorConstructed
    /\ CalculatorConstructed
    /\ image_store = <<>>
    /\ CoordinatorConstructed
    /\ OverridesConstructed
    /\ SystemConstructed
    /\ NoEntity
    /\ PublisherConstructed

\* the clock moves to a later instant of TimeoutInstants
LateTick ==
    /\ \E t \in TimeoutInstants : t > now /\ now' = t
    /\ rm_call' = [NoCall EXCEPT !.op = "tick"]
    /\ UNCHANGED <<gpu_allocations, ocr_allocations, critical_queue, standard_queue,
                   low_queue, document_start_times, timed_out_documents, escalations,
                   next_id, smVars, ccVars, coVars, ovVars, pdVars, lcVars, epVars>>

NextTO ==
    \/ \E d \in Docs, pt \in {GPU_INTERPRETATION, SIMILARITY_ANALYSIS} :
            RequestProcessing(d, pt, STANDARD)
    \/ \E d \in Docs : CheckDocumentTimeout(d)
    \/ LateTick

SpecTO == InitTO /\ [][NextTO]_vars

----------------------------------------------------------------------------
\* The state machine: one call per behaviour, its arguments drawn at the
\* start from every state of both enums, every trigger and the completion
\* percentages of CompletionInputs; the document's images are one of
\* SmImageStores.

SmImageStores ==
    { <<ImageCompletionStatus(ImgState("ready"), "critical")>>,
      <<ImageCompletionStatus(ImgState("ready"), "critical"),
        ImageCompletionStatus(ImgState("needs_hitl"), "supporting")>> }

InitSM ==
    /\ ManagerConstructed
    /\ CalculatorConstructed
    /\ CoordinatorConstructed
    /\ OverridesConstructed
    /\ SystemConstructed
    /\ NoEntity
    /\ PublisherConstructed
    /\ image_store \in SmImageStores
    /\ sm_input \in [entity_id : {"d1"}, completion_percentage : CompletionInputs,
                     from_state : PipelineDocumentState \cup PipelineImageState,
                     trigger : TransitionTrigger,
                     to_state : PipelineDocumentState \cup PipelineImageState]
    /\ sm_pc = "call"
    /\ sm_result = NoResult
    /\ audit_events = <<>>
    /\ sessions_opened = 0

ValidateTransition ==
    LET code == validate_transition(sm_input, sm_input.from_state, sm_input.trigger,
                                    sm_input.to_state)
    IN  /\ sm_pc = "call"
        /\ sm_pc' = "validated"
        /\ sm_result' = [op |-> "validate_transition", raised |-> code # "",
                         error_code |-> code, success |-> code = ""]
        /\ UNCHANGED <<sm_input, audit_events, sessions_opened, rmVars, ccVars, coVars, ovVars, pdVars, lcVars, epVars>>

ExecuteTransition(db_ok) ==
    LET r == execute_transition(sm_input, sm_input.from_state, sm_input.trigger,
                                sm_input.to_state, db_ok)
    IN  /\ sm_pc = "call"
        /\ sm_pc' = "executed"
        /\ sm_result' = [op |-> "execute_transition", raised |-> r.raised,
                         error_code |-> r.error_code, success |-> r.success]
        /\ audit_events' = audit_events \o r.audit
        /\ sessions_opened' = sessions_opened + r.sessions
        /\ UNCHANGED <<sm_input, rmVars, ccVars, coVars, ovVars, pdVars, lcVars, epVars>>

NextSM ==
    \/ ValidateTransition
    \/ \E db_ok \in BOOLEAN : ExecuteTransition(db_ok)

SpecSM == InitSM /\ [][NextSM]_vars

----------------------------------------------------------------------------
\* The completion calculator: the document's images are drawn at the start;
\* calculate_completion is called on them, and the environment lets an image
\* that is not complete reach a complete state.

\* images per document
MaxImages == 4

ImageInputs ==
    {ImageCompletionStatus(ImgState(v), t) :
        v \in {"ready", "needs_hitl", "needs_interpretation"},
        t \in DiagramType}

Repeat(n, image) == [i \in 1..n |-> image]

\* 18 images (3 critical, 9 supporting, 6 decorative), all complete except
\* one supporting image in NEEDS_HITL
Example18 ==
    Repeat(3, ImageCompletionStatus(ImgState("ready"), "critical"))
    \o Repeat(8, ImageCompletionStatus(ImgState("ready"), "supporting"))
    \o <<ImageCompletionStatus(ImgState("needs_hitl"), "supporting")>>
    \o Repeat(6, ImageCompletionStatus(ImgState("ignored"), "decorative"))

\* ten supporting images of which k are complete, none blocking
TenImages(k) ==
    Repeat(k, ImageCompletionStatus(ImgState("canonicalized"), "supporting"))
    \o Repeat(10 - k, ImageCompletionStatus(ImgState("interpreted"), "supporting"))

\* nine supporting images complete, the one critical image still waiting
TenImagesCriticalPending ==
    Repeat(9, ImageCompletionStatus(ImgState("duplicate_linked"), "supporting"))
    \o <<ImageCompletionStatus(ImgState("interpreted"), "critical")>>

ImageStores ==
    UNION {[1..n -> ImageInputs] : n \in 0..MaxImages}
    \cup {Example18, TenImagesCriticalPending}
    \cup {TenImages(k) : k \in 6..10}

InitCC ==
    /\ ManagerConstructed
    /\ ExecutorConstructed
    /\ CoordinatorConstructed
    /\ OverridesConstructed
    /\ SystemConstructed
    /\ NoEntity
    /\ PublisherConstructed
    /\ image_store \in ImageStores
    /\ cc_pc = "idle"
    /\ cc_metrics = NoMetrics

CalculateCompletion(session_ok) ==
    /\ cc_pc' = "calculated"
    /\ cc_metrics' = calculate_completion(image_store, session_ok)
    /\ UNCHANGED <<image_store, rmVars, smVars, coVars, ovVars, pdVars, lcVars, epVars>>

\* image i, not complete so far, becomes complete; the metrics computed
\* before no longer describe the document
ImageCompletes(i, state) ==
    /\ ~image_store[i].is_complete
    /\ image_store' =
          [image_store EXCEPT
              ![i] = ImageCompletionStatus(state, image_store[i].diagram_type)]
    /\ cc_pc' = "image_completed"
    /\ cc_metrics' = NoMetrics
    /\ UNCHANGED <<rmVars, smVars, coVars, ovVars, pdVars, lcVars, epVars>>

NextCC ==
    \/ \E session_ok \in BOOLEAN : CalculateCompletion(session_ok)
    \/ \E i \in 1..Len(image_store) : ImageCompletes(i, ImgState("ready"))

SpecCC == InitCC /\ [][NextCC]_vars

----------------------------------------------------------------------------
\* The coordinator: one call per behaviour, the method and its arguments
\* drawn at the start.

MetadataInputs ==
    {NoMetadata} \cup
    {md \in [valid : {TRUE}, critical_matches : 0..CRITICAL_PATTERNS,
             decorative_matches : 0..DECORATIVE_PATTERNS, title_word : BOOLEAN,
             page_number : {1, 2}, file_size_kb : {9, 10},
             aspect_ratio : {9, 10, 1000, 1001}] :
        \* "system" and "method" are critical patterns and title words
        md.critical_matches >= CRITICAL_PATTERNS - 1 => md.title_word}

\* md5 residues on both sides of what _calculate_mock_similarity shifts
BaseScores == {0, 74, 75, 79, 80, 85, 86, 89, 90, 94, 95, 96, 99}

HashInputs(base_scores) == {NoHash} \cup [valid : {TRUE}, base_score : base_scores]

Classifications ==
    {DiagramClassification(t, c, a, h) :
        t \in DiagramType, c \in {0, 399}, a \in BOOLEAN, h \in BOOLEAN}

Similarities ==
    {SimilarityAnalysis(l, sc, m, h, FALSE) :
        l \in SimilarityLevel, sc \in {0, 80, 95}, m \in BOOLEAN, h \in BOOLEAN}

CoordinatorCalls ==
    [op : {"classify_diagram"}, image_metadata : MetadataInputs]
    \cup [op : {"analyze_similarity"}, perceptual_hash : HashInputs(0..99)]
    \cup [op : {"coordinate_image_processing"}, image_metadata : MetadataInputs,
          perceptual_hash : HashInputs(BaseScores)]
    \cup [op : {"make_coordination_decision"}, classification : Classifications,
          similarity : Similarities]

InitCO ==
    /\ ManagerConstructed
    /\ ExecutorConstructed
    /\ CalculatorConstructed
    /\ image_store = <<>>
    /\ OverridesConstructed
    /\ SystemConstructed
    /\ NoEntity
    /\ PublisherConstructed
    /\ co_input \in CoordinatorCalls
    /\ co_pc = "call"
    /\ co_result = <<>>

Returned(op, result) ==
    /\ co_pc = "call"
    /\ co_input.op = op
    /\ co_pc' = op
    /\ co_result' = result
    /\ UNCHANGED <<co_input, rmVars, smVars, ccVars, ovVars, pdVars, lcVars, epVars>>

ClassifyDiagram ==
    /\ co_input.op = "classify_diagram"
    /\ Returned("classify_diagram", classify_diagram(co_input.image_metadata))

AnalyzeSimilarity ==
    /\ co_input.op = "analyze_similarity"
    /\ Returned("analyze_similarity", analyze_similarity(co_input.perceptual_hash))

CoordinateImageProcessing ==
    /\ co_input.op = "coordinate_image_processing"
    /\ Returned("coordinate_image_processing",
                coordinate_image_processing(co_input.image_metadata,
                                            co_input.perceptual_hash))

MakeCoordinationDecision ==
    /\ co_input.op = "make_coordination_decision"
    /\ Returned("make_coordination_decision",
                make_coordination_decision(co_input.classification, co_input.similarity))

NextCO ==
    \/ ClassifyDiagram
    \/ AnalyzeSimilarity
    \/ CoordinateImageProcessing
    \/ MakeCoordinationDecision

SpecCO == InitCO /\ [][NextCO]_vars

----------------------------------------------------------------------------
\* Specification of the manual override system: one request_override call
\* on a request and database contents drawn from bounded sets.

\* what the user table holds for administrator_id, and what
\* verify_admin_permission would answer for the request's emergency level
Administrators ==
    { [exists |-> FALSE, permitted |-> FALSE, is_superuser |-> FALSE],
      [exists |-> TRUE, permitted |-> FALSE, is_superuser |-> FALSE],
      [exists |-> TRUE, permitted |-> TRUE, is_superuser |-> FALSE],
      [exists |-> TRUE, permitted |-> TRUE, is_superuser |-> TRUE] }

Justifications == {Text(40, 0), Text(104, 5), Text(100, 0), Text(2001, 0)}

ExpectedOutcomes == {Text(49, 0), Text(50, 0)}

RollbackPlans == {Text(0, 0), Text(49, 0), Text(50, 0)}

TargetStates == {"", "blocked", "bogus"}

EntityIds == {1, 2}

OverrideRequests ==
    { r \in [administrator : Administrators,
             emergency_level : {"low", "high", "critical"},
             scope : OverrideScope,
             document_id : {NoId, 1},
             image_id : {NoId, 1},
             document_ids : {<<>>, <<1, 2>>},
             target_state : TargetStates,
             force_transition : BOOLEAN,
             justification : Justifications,
             expected_outcome : ExpectedOutcomes,
             risk_level : {"low", "medium", "high"},
             rollback_plan : RollbackPlans] :
        r.document_ids # <<>> => r.scope = "document_batch" }

\* the rows of the pipeline tables: document and image 1 exist, 2 may not
OverrideStores == {[e \in EntityIds |-> "ingested"],
                   [e \in EntityIds |-> IF e = 1 THEN "ingested" ELSE "absent"]}

\* audit_record.override_id, a uuid4
NewOverrideId == 1

InitOV ==
    /\ ManagerConstructed
    /\ ExecutorConstructed
    /\ CalculatorConstructed
    /\ image_store = <<>>
    /\ CoordinatorConstructed
    /\ SystemConstructed
    /\ NoEntity
    /\ PublisherConstructed
    /\ ov_request \in OverrideRequests
    /\ ov_states \in OverrideStores
    /\ ov_pc = "idle"
    /\ ov_result = <<>>
    /\ ov_trail = <<>>

RequestOverride ==
    /\ ov_pc = "idle"
    /\ LET r == request_override(ov_request, ov_states, NewOverrideId)
       IN  /\ ov_result' = [raised |-> r.raised, override_id |-> r.override_id,
                            states_before |-> ov_states]
           /\ ov_trail' = r.trail
           /\ ov_states' = r.states
           /\ ov_pc' = IF r.raised = "" THEN "returned" ELSE "raised"
    /\ UNCHANGED <<ov_request, rmVars, smVars, ccVars, coVars, pdVars, lcVars, epVars>>

NextOV == RequestOverride

SpecOV == InitOV /\ [][NextOV]_vars

----------------------------------------------------------------------------
\* Specification of process_document: one call on a document, with the
\* outcomes of the calls it makes drawn from bounded sets.

ProcessedDocs == {1, 2, 3}

Outcomes == {"truthy", "falsy", "raises"}

ProcessDocumentCalls ==
    [document_id : ProcessedDocs,
     should_process : Outcomes,
     allocation : Outcomes,
     transition : Outcomes,
     publish : {"truthy", "raises"}]

InitPD ==
    /\ ManagerConstructed
    /\ ExecutorConstructed
    /\ CalculatorConstructed
    /\ image_store = <<>>
    /\ CoordinatorConstructed
    /\ OverridesConstructed
    /\ NoEntity
    /\ PublisherConstructed
    /\ pd_input \in ProcessDocumentCalls
    /\ pd_held \in SUBSET (ProcessedDocs \ {pd_input.document_id})
    /\ pd_pc = "call"
    /\ pd_result = FALSE

ProcessDocument ==
    /\ pd_pc = "call"
    /\ LET r == process_document(pd_input.document_id, pd_input, pd_held)
       IN  /\ pd_result' = r.returned
           /\ pd_held' = r.held
    /\ pd_pc' = "returned"
    /\ UNCHANGED <<pd_input, rmVars, smVars, ccVars, coVars, ovVars, lcVars, epVars>>

NextPD == ProcessDocument

SpecPD == InitPD /\ [][NextPD]_vars

----------------------------------------------------------------------------
\* Specification of the lifecycles: entities of one type start in the
\* initial state of their enum, and callers attempt transitions from any
\* state some entity has reached; an attempt that validate_transition
\* accepts moves the entity.

\* the transition context of an attempt
LifecycleContext(completion_percentage) ==
    [entity_id |-> "e", completion_percentage |-> completion_percentage]

\* the states of the enum that from_state belongs to
StatesOf(from_state) ==
    IF from_state.enum = "PipelineDocumentState"
    THEN PipelineDocumentState ELSE PipelineImageState

\* the completion percentages of the attempts: none, and the two thresholds
LifecycleCompletions == {None, 70, 90}

InitLC ==
    /\ ManagerConstructed
    /\ ExecutorConstructed
    /\ CalculatorConstructed
    /\ image_store = <<>>
    /\ CoordinatorConstructed
    /\ OverridesConstructed
    /\ SystemConstructed
    /\ lc_current \in {DocState("ingested"), ImgState("image_extracted")}
    /\ lc_reached = {lc_current}
    /\ lc_call = [trigger |-> "", to_state |-> lc_current, error_code |-> ""]
    /\ PublisherConstructed

AttemptTransition(from_state, trigger, to_state, completion_percentage) ==
    LET code == validate_transition(LifecycleContext(completion_percentage),
                                    from_state, trigger, to_state)
    IN  /\ lc_call' = [trigger |-> trigger, to_state |-> to_state, error_code |-> code]
        /\ lc_current' = IF code = "" THEN to_state ELSE from_state
        /\ lc_reached' = IF code = "" THEN lc_reached \cup {to_state} ELSE lc_reached
        /\ UNCHANGED <<rmVars, smVars, ccVars, coVars, ovVars, pdVars, epVars>>

NextLC ==
    \E from_state \in lc_reached, trigger \in TransitionTrigger,
       to_state \in StatesOf(lc_current),
       completion_percentage \in LifecycleCompletions :
        AttemptTransition(from_state, trigger, to_state, completion_percentage)

SpecLC == InitLC /\ [][NextLC]_vars

----------------------------------------------------------------------------
\* Specification of the event publisher: callers publish the payloads of
\* EventPayloads, connection handlers add and remove WebSocket clients, and
\* the processing task delivers, all interleaved at the awaits.  The
\* subscriptions of Subscriptions have been registered with subscribe.

InitEP ==
    /\ ManagerConstructed
    /\ ExecutorConstructed
    /\ CalculatorConstructed
    /\ image_store = <<>>
    /\ CoordinatorConstructed
    /\ OverridesConstructed
    /\ SystemConstructed
    /\ NoEntity
    /\ PublisherConstructed

\* publish_event up to the end of await self.db.commit(): the event log row
\* is written, or the commit raises and publish_event with it
PublishEventCommit(payload, committed) ==
    /\ payload \notin Range(ep_log)
    /\ payload \notin ep_refused
    /\ IF committed
       THEN /\ ep_log' = Append(ep_log, payload)
            /\ ep_committed' = ep_committed \cup {payload}
            /\ UNCHANGED ep_refused
       ELSE /\ ep_refused' = ep_refused \cup {payload}
            /\ UNCHANGED <<ep_log, ep_committed>>
    /\ UNCHANGED <<ep_queue, ep_taken, ep_task, ep_http_session, ep_pc, ep_payload,
                   ep_clients, ep_seen, ep_subscribers, ep_ws, ep_wh,
                   rmVars, smVars, ccVars, coVars, ovVars, pdVars, lcVars>>

\* publish_event from the commit on: the payload is put on the queue
PublishEventPut(payload) ==
    /\ payload \in ep_committed
    /\ ep_committed' = ep_committed \ {payload}
    /\ ep_queue' = Append(ep_queue, payload)
    /\ UNCHANGED <<ep_log, ep_refused, ep_taken, ep_task, ep_http_session, ep_pc,
                   ep_payload, ep_clients, ep_seen, ep_subscribers, ep_ws, ep_wh,
                   rmVars, smVars, ccVars, coVars, ovVars, pdVars, lcVars>>

\* start
Start ==
    /\ ep_task = "none"
    /\ ep_task' = "running"
    /\ ep_http_session' = TRUE
    /\ UNCHANGED <<ep_log, ep_committed, ep_refused, ep_queue, ep_taken, ep_pc,
                   ep_payload, ep_clients, ep_seen, ep_subscribers, ep_ws, ep_wh,
                   rmVars, smVars, ccVars, coVars, ovVars, pdVars, lcVars>>

\* stop: the processing task is cancelled, and with it the deliveries it is
\* waiting for, which are no more
Stop ==
    /\ ep_task = "running"
    /\ ep_task' = "cancelled"
    /\ ep_pc' = "idle"
    /\ ep_ws' = NoWebSocketDelivery
    /\ ep_wh' = [id \in SubscriptionIds |-> NoWebhookDelivery]
    /\ UNCHANGED <<ep_log, ep_committed, ep_refused, ep_queue, ep_taken,
                   ep_http_session, ep_payload, ep_clients, ep_seen, ep_subscribers,
                   rmVars, smVars, ccVars, coVars, ovVars, pdVars, lcVars>>

\* _process_event_queue: the get returns the oldest payload of the queue and
\* _deliver_event makes the deliveries and awaits them.  A get that times
\* out changes nothing.
TakeEvent ==
    /\ ep_task = "running"
    /\ ep_pc = "idle"
    /\ ep_queue # <<>>
    /\ LET payload == Head(ep_queue)
           d == deliver_event(payload, ep_clients, ep_subscribers)
       IN  /\ ep_queue' = Tail(ep_queue)
           /\ ep_taken' = Append(ep_taken, payload)
           /\ ep_payload' = payload
           /\ ep_ws' = d.websockets
           /\ ep_wh' = d.webhooks
           /\ ep_pc' = "delivering"
    /\ UNCHANGED <<ep_log, ep_committed, ep_refused, ep_task, ep_http_session,
                   ep_clients, ep_seen, ep_subscribers,
                   rmVars, smVars, ccVars, coVars, ovVars, pdVars, lcVars>>

\* _deliver_to_websockets from its start to the first send
WebSocketsStart ==
    /\ ep_ws.pc = "created"
    /\ IF ep_clients = {}
       THEN /\ ep_ws' = [ep_ws EXCEPT !.pc = "returned"]
            /\ UNCHANGED ep_clients
       ELSE \E r \in websocket_iteration(
                        [ep_ws EXCEPT !.used = Cardinality(ep_clients),
                                      !.ahead = ep_clients, !.stayed = ep_clients],
                        ep_clients) :
                /\ ep_ws' = r.delivery
                /\ ep_clients' = r.clients
    /\ UNCHANGED <<ep_log, ep_committed, ep_refused, ep_queue, ep_taken, ep_task,
                   ep_http_session, ep_pc, ep_payload, ep_seen, ep_subscribers, ep_wh,
                   rmVars, smVars, ccVars, coVars, ovVars, pdVars, lcVars>>

\* await client.send_text(message) returns, or raises and the client is
\* noted as disconnected; then the loop goes on
WebSocketSendEnds(sent) ==
    /\ ep_ws.pc = "sending"
    /\ \E r \in websocket_iteration(
                    IF sent THEN ep_ws
                    ELSE [ep_ws EXCEPT !.disconnected_clients = @ \cup {ep_ws.client}],
                    ep_clients) :
            /\ ep_ws' = r.delivery
            /\ ep_clients' = r.clients
    /\ UNCHANGED <<ep_log, ep_committed, ep_refused, ep_queue, ep_taken, ep_task,
                   ep_http_session, ep_pc, ep_payload, ep_seen, ep_subscribers, ep_wh,
                   rmVars, smVars, ccVars, coVars, ovVars, pdVars, lcVars>>

\* add_websocket_client for a new connection.  During a delivery the new
\* entry of the set lies ahead of the iterator or behind it.
AddWebSocketClient(client) ==
    /\ client \notin ep_seen
    /\ ep_clients' = ep_clients \cup {client}
    /\ ep_seen' = ep_seen \cup {client}
    /\ IF ep_ws.pc = "sending"
       THEN \E ahead \in {ep_ws.ahead, ep_ws.ahead \cup {client}} :
                ep_ws' = [ep_ws EXCEPT !.ahead = ahead]
       ELSE UNCHANGED ep_ws
    /\ UNCHANGED <<ep_log, ep_committed, ep_refused, ep_queue, ep_taken, ep_task,
                   ep_http_session, ep_pc, ep_payload, ep_subscribers, ep_wh,
                   rmVars, smVars, ccVars, coVars, ovVars, pdVars, lcVars>>

\* remove_websocket_client for a connected client
RemoveWebSocketClient(client) ==
    /\ client \in ep_clients
    /\ ep_clients' = ep_clients \ {client}
    /\ IF ep_ws.pc = "sending"
       THEN ep_ws' = [ep_ws EXCEPT !.ahead = @ \ {client}, !.stayed = @ \ {client}]
       ELSE UNCHANGED ep_ws
    /\ UNCHANGED <<ep_log, ep_committed, ep_refused, ep_queue, ep_taken, ep_task,
                   ep_http_session, ep_pc, ep_payload, ep_seen, ep_subscribers, ep_wh,
                   rmVars, smVars, ccVars, coVars, ovVars, pdVars, lcVars>>

SubscriptionOf(id) == CHOOSE s \in Subscriptions : s.subscription_id = id

epOnlyWebhooks == <<ep_log, ep_committed, ep_refused, ep_queue, ep_taken, ep_task,
                    ep_http_session, ep_pc, ep_payload, ep_clients, ep_seen,
                    ep_subscribers, ep_ws>>

\* _deliver_to_webhook from its start to the first post
WebhookStart(id) ==
    /\ ep_wh[id].pc = "created"
    /\ ep_wh' = [ep_wh EXCEPT ![id] =
                    IF SubscriptionOf(id).webhook_url = "" \/ ~ep_http_session
                    THEN [@ EXCEPT !.pc = "returned"]
                    ELSE [@ EXCEPT !.pc = "posting", !.attempts = 1]]
    /\ UNCHANGED <<epOnlyWebhooks, rmVars, smVars, ccVars, coVars, ovVars, pdVars, lcVars>>

\* the post ends: a status below 400, a status from 400 on, or an exception
WebhookPostEnds(id, outcome) ==
    /\ ep_wh[id].pc = "posting"
    /\ ep_wh' = [ep_wh EXCEPT ![id] =
                    IF outcome = "delivered"
                    THEN [@ EXCEPT !.pc = "returned"]
                    ELSE webhook_after_failure(@, SubscriptionOf(id), outcome)]
    /\ UNCHANGED <<epOnlyWebhooks, rmVars, smVars, ccVars, coVars, ovVars, pdVars, lcVars>>

\* asyncio.sleep(2 ** attempt) is over: the next attempt
WebhookBackoffEnds(id) ==
    /\ ep_wh[id].pc = "backoff"
    /\ ep_wh' = [ep_wh EXCEPT ![id] =
                    [@ EXCEPT !.pc = "posting", !.attempts = @ + 1]]
    /\ UNCHANGED <<epOnlyWebhooks, rmVars, smVars, ccVars, coVars, ovVars, pdVars, lcVars>>

DeliveriesOver ==
    /\ ep_ws.pc \in {"none", "returned", "raised"}
    /\ \A id \in SubscriptionIds : ep_wh[id].pc \in {"none", "returned", "failed"}

\* asyncio.gather(*delivery_tasks, return_exceptions=True) returns (with no
\* delivery made, _deliver_event returns without it), the deliveries are
\* dropped and _process_event_queue is back at its get
GatherReturns ==
    /\ ep_task = "running"
    /\ ep_pc = "delivering"
    /\ DeliveriesOver
    /\ ep_pc' = "idle"
    /\ ep_ws' = NoWebSocketDelivery
    /\ ep_wh' = [id \in SubscriptionIds |-> NoWebhookDelivery]
    /\ UNCHANGED <<ep_log, ep_committed, ep_refused, ep_queue, ep_taken, ep_task,
                   ep_http_session, ep_payload, ep_clients, ep_seen, ep_subscribers,
                   rmVars, smVars, ccVars, coVars, ovVars, pdVars, lcVars>>

\* what the processing task and the deliveries do
TaskSteps ==
    \/ TakeEvent
    \/ WebSocketsStart
    \/ \E sent \in BOOLEAN : WebSocketSendEnds(sent)
    \/ \E id \in SubscriptionIds : WebhookStart(id)
    \/ \E id \in SubscriptionIds, outcome \in {"delivered", "status", "exception"} :
            WebhookPostEnds(id, outcome)
    \/ \E id \in SubscriptionIds : WebhookBackoffEnds(id)
    \/ GatherReturns

NextEP ==
    \/ \E payload \in EventPayloads, committed \in BOOLEAN :
            PublishEventCommit(payload, committed)
    \/ \E payload \in EventPayloads : PublishEventPut(payload)
    \/ Start
    \/ Stop
    \/ \E client \in WebSocketClients : AddWebSocketClient(client)
    \/ \E client \in WebSocketClients : RemoveWebSocketClient(client)
    \/ TaskSteps

\* The event loop runs every task that is ready, and a send, a post and a
\* sleep end (the posts have a timeout): the steps of the processing task
\* and of its deliveries are taken when they stay possible.
SpecEP == InitEP /\ [][NextEP]_vars /\ WF_vars(TaskSteps)

----------------------------------------------------------------------------
\* Properties of the resource manager

Pool(processing_type) ==
    IF processing_type = GPU_INTERPRETATION THEN gpu_allocations
    ELSE IF processing_type = OCR_EXTRACTION THEN ocr_allocations
    ELSE {}

Ceiling(processing_type) ==
    IF processing_type = GPU_INTERPRETATION THEN MAX_GPU_SLOTS ELSE MAX_OCR_SLOTS

QueuedRequests == Range(critical_queue) \cup Range(standard_queue) \cup Range(low_queue)

QueueDepth == Len(critical_queue) + Len(standard_queue) + Len(low_queue)

\* this step is a request_processing call for a pooled type whose pool is full
RequestAtFullPool ==
    /\ rm_call'.op = "request_processing"
    /\ rm_call'.processing_type \in {GPU_INTERPRETATION, OCR_EXTRACTION}
    /\ Cardinality(Pool(rm_call'.processing_type)) >= Ceiling(rm_call'.processing_type)

\* this step appends one request, with the id the call returned, to one queue
QueuedByThisStep ==
    \E request \in [request_id : {rm_call'.ret}, document_id : Docs,
                     processing_type : {rm_call'.processing_type},
                     priority : Priority, created_at : {now}] :
        /\ rm_call'.error = ""
        /\ request.request_id \notin {r.request_id : r \in QueuedRequests}
        /\ critical_queue' =
              IF request.priority = CRITICAL THEN Append(critical_queue, request)
              ELSE critical_queue
        /\ standard_queue' =
              IF request.priority = STANDARD THEN Append(standard_queue, request)
              ELSE standard_queue
        /\ low_queue' =
              IF request.priority = LOW THEN Append(low_queue, request) ELSE low_queue

C1_Ceilings ==
    /\ Cardinality(gpu_allocations) <= MAX_GPU_SLOTS
    /\ Cardinality(ocr_allocations) <= MAX_OCR_SLOTS

\* C1 as stated: the active GPU allocations never exceed MAX_GPU_SLOTS and
\* the active OCR allocations never exceed MAX_OCR_SLOTS, and every GPU or
\* OCR request that arrives while its pool is full is put in a priority queue
\* and is not allocated.
C1_FullPoolAlwaysQueues ==
    /\ []C1_Ceilings
    /\ [][RequestAtFullPool =>
            /\ UNCHANGED <<gpu_allocations, ocr_allocations>>
            /\ QueuedByThisStep]_vars

\* C1 (amended): the ceilings are never exceeded, and a GPU or OCR request
\* that arrives while its pool is full is never allocated: it is appended to
\* the queue of its priority while the total queue depth is below
\* MAX_QUEUE_DEPTH, and it is rejected with an error, the queues unchanged,
\* once the depth has reached MAX_QUEUE_DEPTH.
C1_FullPoolQueuesOrRejects ==
    /\ []C1_Ceilings
    /\ [][RequestAtFullPool =>
            /\ UNCHANGED <<gpu_allocations, ocr_allocations>>
            /\ IF QueueDepth < MAX_QUEUE_DEPTH
               THEN QueuedByThisStep
               ELSE /\ rm_call'.error # ""
                    /\ UNCHANGED <<critical_queue, standard_queue, low_queue>>]_vars

\* C1 witness: a GPU request arrived at a full GPU pool and is now queued
C1_Witness ==
    /\ rm_call.op = "request_processing"
    /\ rm_call.processing_type = GPU_INTERPRETATION
    /\ rm_call.error = ""
    /\ Cardinality(gpu_allocations) = MAX_GPU_SLOTS
    /\ \E r \in QueuedRequests : r.request_id = rm_call.ret
    /\ rm_call.ret \notin AllocationIds(gpu_allocations)

\* the request that a release of a slot of the processing type must serve:
\* the one nearest the front of the highest-priority queue that holds a
\* request of that type
HoldsType(queue, processing_type) ==
    \E i \in 1..Len(queue) : queue[i].processing_type = processing_type

NearestFront(queue, processing_type) ==
    CHOOSE i \in 1..Len(queue) :
        /\ queue[i].processing_type = processing_type
        /\ \A j \in 1..(i - 1) : queue[j].processing_type # processing_type

\* this step is a release_resource call that frees a slot of the type
ReleaseFrees(processing_type) ==
    /\ rm_call'.op = "release_resource"
    /\ \E a \in Pool(processing_type) :
          a.allocation_id \notin AllocationIds(Pool(processing_type)')

\* the pool of the type loses one allocation and gains one, under an id not
\* in use before, for the document of the served request
ServedInstead(processing_type, request) ==
    \E old \in Pool(processing_type) :
    \E new \in Pool(processing_type)' :
        /\ new.allocation_id \notin AllocationIds(gpu_allocations \cup ocr_allocations)
        /\ new.document_id = request.document_id
        /\ new.processing_type = processing_type
        /\ Pool(processing_type)' = (Pool(processing_type) \ {old}) \cup {new}

\* C2: when release_resource frees a slot of a processing type and a request
\* of that type is queued, the same call allocates exactly one queued
\* request: the one nearest the front of the highest-priority queue that
\* holds a request of the type; every other queued request stays where it
\* was, in the same order, and the other pool is untouched.
C2_ReleaseServesHighestPriorityFifo ==
    [][\A pt \in {GPU_INTERPRETATION, OCR_EXTRACTION} :
        (ReleaseFrees(pt) /\ \E r \in QueuedRequests : r.processing_type = pt) =>
            /\ rm_call'.ret = TRUE
            /\ IF HoldsType(critical_queue, pt)
               THEN /\ critical_queue' =
                          RemoveAt(critical_queue, NearestFront(critical_queue, pt))
                    /\ UNCHANGED <<standard_queue, low_queue>>
                    /\ ServedInstead(pt, critical_queue[NearestFront(critical_queue, pt)])
               ELSE IF HoldsType(standard_queue, pt)
               THEN /\ standard_queue' =
                          RemoveAt(standard_queue, NearestFront(standard_queue, pt))
                    /\ UNCHANGED <<critical_queue, low_queue>>
                    /\ ServedInstead(pt, standard_queue[NearestFront(standard_queue, pt)])
               ELSE /\ low_queue' = RemoveAt(low_queue, NearestFront(low_queue, pt))
                    /\ UNCHANGED <<critical_queue, standard_queue>>
                    /\ ServedInstead(pt, low_queue[NearestFront(low_queue, pt)])
            /\ \A other \in {GPU_INTERPRETATION, OCR_EXTRACTION} \ {pt} :
                  Pool(other)' = Pool(other)]_vars

\* C2 witness: a release has just allocated a queued GPU request (the newest
\* id is a GPU allocation made by the release call) although OCR requests
\* sit in front of it in the critical and the standard queue
C2_Witness ==
    /\ rm_call.op = "release_resource"
    /\ rm_call.ret = TRUE
    /\ \E a \in gpu_allocations : a.allocation_id = next_id - 1 /\ a.allocation_id > 0
    /\ Len(critical_queue) > 0
    /\ critical_queue[1].processing_type = OCR_EXTRACTION
    /\ Len(standard_queue) > 1
    /\ standard_queue[1].processing_type = OCR_EXTRACTION
    /\ standard_queue[2].processing_type = GPU_INTERPRETATION

\* C3 as stated: a LOW request that has waited more than 480 minutes is,
\* after a prevent_starvation sweep, in the STANDARD queue (at its front when
\* it is the only LOW request promoted), and a sweep that directly follows a
\* sweep leaves a promoted LOW request in the STANDARD queue.
C3_LowPromotedToStandardOnce ==
    [][rm_call'.op = "prevent_starvation" =>
        /\ \A r \in Range(low_queue) :
              (now - r.created_at > STARVATION_PREVENTION_MINUTES(LOW)) =>
                  /\ r \in Range(standard_queue')
                  /\ r \notin Range(low_queue') \cup Range(critical_queue')
        /\ (\E i \in 1..Len(low_queue) :
                /\ now - low_queue[i].created_at > STARVATION_PREVENTION_MINUTES(LOW)
                /\ \A j \in 1..Len(low_queue) : j # i =>
                      ~(now - low_queue[j].created_at > STARVATION_PREVENTION_MINUTES(LOW)))
              => (Len(standard_queue') > 0 /\ Head(standard_queue') \in Range(low_queue))
        /\ rm_call.op = "prevent_starvation" =>
              \A r \in Range(standard_queue) :
                  r.priority = LOW => r \in Range(standard_queue')]_vars

----------------------------------------------------------------------------
\* Properties of the state machine

TransitionTable == document_transitions \cup image_transitions

\* the (from_state, trigger) pairs the two tables hold
TablePairs == {<<t.from_state, t.trigger>> : t \in TransitionTable}

Rules(from_state, trigger) ==
    {t \in TransitionTable : t.from_state = from_state /\ t.trigger = trigger}

\* C4: for every (from_state, trigger) pair that neither table holds, whatever
\* to_state and context, execute_transition raises StateTransitionError for
\* the failed validation, opens no session, writes no audit record and
\* changes nothing else.
C4_UnknownPairRaisesWithoutEffect ==
    [][(/\ sm_result'.op = "execute_transition"
        /\ sm_result.op = ""
        /\ <<sm_input.from_state, sm_input.trigger>> \notin TablePairs)
       => /\ sm_result'.raised
          /\ sm_result'.error_code \in {"INVALID_FROM_STATE", "INVALID_TRANSITION"}
          /\ ~sm_result'.success
          /\ UNCHANGED <<audit_events, sessions_opened, sm_input, image_store,
                         rmVars, cc_pc, cc_metrics, coVars, ovVars, pdVars,
                         lcVars, epVars>>]_vars

\* execute_transition was called, with a working database, for a trigger
\* that is not registered under a state the table knows, and it raised
C4_Witness ==
    /\ sm_pc = "executed"
    /\ sm_input.from_state = DocState("partially_processed")
    /\ sm_input.trigger = "human_approval"
    /\ sm_input.to_state = DocState("ready")
    /\ sm_input.completion_percentage = 90
    /\ sm_result.raised
    /\ sm_result.error_code = "INVALID_TRANSITION"
    /\ audit_events = <<>>

\* the completion a rule asks for is there
ThresholdMet(rule, completion_percentage) ==
    /\ "completion_90_percent" \in rule.preconditions
          => completion_percentage # None /\ completion_percentage >= 90
    /\ "completion_70_percent" \in rule.preconditions
          => completion_percentage # None /\ completion_percentage >= 70

\* the first check that fails, in the order from_state, trigger, to_state,
\* completion; two states are the same to_state when their values are equal
FirstFailedCheck ==
    IF \A t \in TransitionTable : t.from_state # sm_input.from_state
    THEN "INVALID_FROM_STATE"
    ELSE IF Rules(sm_input.from_state, sm_input.trigger) = {}
    THEN "INVALID_TRANSITION"
    ELSE IF \A t \in Rules(sm_input.from_state, sm_input.trigger) :
                t.to_state.value # sm_input.to_state.value
    THEN "TARGET_STATE_MISMATCH"
    ELSE IF \E t \in Rules(sm_input.from_state, sm_input.trigger) :
                ~ThresholdMet(t, sm_input.completion_percentage)
    THEN "COMPLETION_THRESHOLD_NOT_MET"
    ELSE ""

\* C5: validate_transition reports the first check that fails in the order
\* INVALID_FROM_STATE, INVALID_TRANSITION, TARGET_STATE_MISMATCH,
\* COMPLETION_THRESHOLD_NOT_MET, and returns True only when all four pass.
C5_ChecksInFixedOrder ==
    sm_pc = "validated" =>
        /\ sm_result.error_code = FirstFailedCheck
        /\ sm_result.success <=> FirstFailedCheck = ""
        /\ sm_result.raised <=> FirstFailedCheck # ""

\* a wrong to_state together with a completion below the threshold: the
\* target check comes first
C5_Witness ==
    /\ sm_pc = "validated"
    /\ sm_input.from_state = DocState("partially_processed")
    /\ sm_input.trigger = "completion_threshold_met"
    /\ sm_input.to_state = DocState("blocked")
    /\ sm_input.completion_percentage = 89
    /\ sm_result.error_code = "TARGET_STATE_MISMATCH"

HasBlockingImage ==
    \E i \in 1..Len(image_store) : image_store[i].state.value \in {"needs_hitl", "blocked"}

\* C6: while the document has an image in a blocking state, neither
\* validate_transition nor execute_transition accepts a transition into
\* READY, whatever completion percentage the context carries.
C6_BlockingImageNeverReady ==
    (/\ sm_pc \in {"validated", "executed"}
     /\ HasBlockingImage
     /\ sm_input.from_state \in PipelineDocumentState
     /\ sm_input.to_state = DocState("ready"))
    => ~sm_result.success

----------------------------------------------------------------------------
\* Properties of the completion calculator

Calculated == cc_pc = "calculated" /\ ~cc_metrics.raised

Completed == {i \in 1..Len(image_store) : image_store[i].is_complete}

CriticalImages == {i \in 1..Len(image_store) : image_store[i].diagram_type = "critical"}

\* completion >= k percent, counted on the images
CompletionAtLeast(k) == Cardinality(Completed) * 100 >= k * Len(image_store)

\* C7: for a non-empty set of images with a critical image that is not
\* complete, calculate_completion recommends neither READY nor
\* PARTIALLY_PROCESSED, whatever the overall completion.
C7_IncompleteCriticalNeverReady ==
    (/\ Calculated
     /\ image_store # <<>>
     /\ CriticalImages \ Completed # {})
    => cc_metrics.metrics.recommended_state
          \notin {DocState("ready"), DocState("partially_processed")}

\* nine of ten images complete, no image blocking, the critical one pending
C7_Witness ==
    /\ Calculated
    /\ image_store = TenImagesCriticalPending
    /\ CompletionAtLeast(90)
    /\ cc_metrics.metrics.blocked_images = 0
    /\ cc_metrics.metrics.recommended_state = DocState("images_extracted")

\* processing times, in tenths of an hour, around the 24 hours
HoursTenths == {0, 25, 239, 240, 241}

\* the state the priority order gives for the stored images after h tenths
\* of an hour
StateByPriority(h) ==
    IF HasBlockingImage \/ h >= 240
    THEN DocState("blocked")
    ELSE IF CompletionAtLeast(90) /\ CriticalImages \subseteq Completed
    THEN DocState("ready")
    ELSE IF CompletionAtLeast(70) /\ CriticalImages \subseteq Completed
    THEN DocState("partially_processed")
    ELSE DocState("images_extracted")

\* C8: for a non-empty image set the recommended state follows the priority
\* order BLOCKED (blocking image or at least 24 hours), READY (>= 90% and all
\* critical images complete), PARTIALLY_PROCESSED (>= 70% and all critical
\* images complete), IMAGES_EXTRACTED; 17 of 18 complete with one image in
\* NEEDS_HITL is BLOCKED.
C8_StateInPriorityOrder ==
    (Calculated /\ image_store # <<>>) =>
        /\ cc_metrics.metrics.recommended_state =
              StateByPriority(cc_metrics.metrics.processing_time_hours)
        /\ \A h \in HoursTenths :
              determine_document_state(
                  [cc_metrics.metrics EXCEPT !.processing_time_hours = h])
              = StateByPriority(h)
        /\ image_store = Example18
              => cc_metrics.metrics.recommended_state = DocState("blocked")

\* the 17 of 18 document
C8_Witness ==
    /\ Calculated
    /\ image_store = Example18
    /\ Cardinality(Completed) = 17
    /\ CriticalImages \subseteq Completed
    /\ cc_metrics.metrics.recommended_state = DocState("blocked")

\* C9: for a document with zero images calculate_completion returns
\* completion_percentage 100, critical_completion_percentage 100,
\* blocked_images 0 and recommends READY.
C9_NoImagesIsReady ==
    (Calculated /\ image_store = <<>>) =>
        /\ RatEq(cc_metrics.metrics.completion_percentage, 100)
        /\ RatEq(cc_metrics.metrics.critical_completion_percentage, 100)
        /\ cc_metrics.metrics.blocked_images = 0
        /\ cc_metrics.metrics.total_images = 0
        /\ cc_metrics.metrics.recommended_state = DocState("ready")

C9_Witness ==
    /\ Calculated
    /\ image_store = <<>>
    /\ cc_metrics.metrics.recommended_state = DocState("ready")

\* exactly image i differs between the two lists, and it went from not
\* complete to complete
OneImageCompleted(before, after) ==
    /\ Len(before) = Len(after)
    /\ \E i \in 1..Len(before) :
          /\ ~before[i].is_complete
          /\ after[i].is_complete
          /\ after[i].diagram_type = before[i].diagram_type
          /\ \A j \in 1..Len(before) : j # i => after[j] = before[j]

\* C10: one image going from not complete to complete, the others unchanged,
\* never lowers weighted_completion, which stays within 0..100.
C10_WeightedCompletionMonotone ==
    [][/\ RatGE(weighted_completion(image_store), 0)
       /\ RatLE(weighted_completion(image_store), 100)
       /\ (Calculated /\ image_store # <<>>) =>
             cc_metrics.metrics.weighted_completion = weighted_completion(image_store)
       /\ OneImageCompleted(image_store, image_store') =>
             RatLeq(weighted_completion(image_store), weighted_completion(image_store'))]_vars

\* a decorative image completed next to a critical and a supporting one that
\* are still pending
C10_Witness ==
    /\ cc_pc = "image_completed"
    /\ Len(image_store) = 3
    /\ image_store[1] = ImageCompletionStatus(ImgState("needs_interpretation"), "critical")
    /\ image_store[2] = ImageCompletionStatus(ImgState("needs_hitl"), "supporting")
    /\ image_store[3] = ImageCompletionStatus(ImgState("ready"), "decorative")

----------------------------------------------------------------------------
\* Properties of the coordinator

\* C11: for the score analyze_similarity computes, a score >= 95 yields
\* DUPLICATE, a score from 80 up to but not including 95 yields
\* NEAR_DUPLICATE with requires_hitl, and a score below 80 yields UNIQUE
\* without requires_hitl.
C11_LevelFollowsScore ==
    (co_pc = "analyze_similarity" /\ co_input.perceptual_hash.valid) =>
        LET score == calculate_mock_similarity(co_input.perceptual_hash.base_score)
        IN  /\ score >= 95 => co_result.similarity_level = DUPLICATE
            /\ (80 <= score /\ score < 95) =>
                  /\ co_result.similarity_level = NEAR_DUPLICATE
                  /\ co_result.requires_hitl
            /\ score < 80 =>
                  /\ co_result.similarity_level = UNIQUE
                  /\ ~co_result.requires_hitl

\* C12: coordinate_image_processing never raises, and when the
\* classification or the similarity analysis failed inside it, the decision
\* returned is the fallback: NEEDS_HITL, STANDARD priority, HITL required.
C12_FailedAnalysisGivesFallback ==
    (/\ co_pc = "coordinate_image_processing"
     /\ \/ classify_diagram(co_input.image_metadata).raised
        \/ analyze_similarity(co_input.perceptual_hash).error)
    => /\ co_result.recommended_state = ImgState("needs_hitl")
       /\ co_result.processing_priority = STANDARD
       /\ co_result.hitl_task_required

\* C13: the decision for a classification and a similarity result is
\* DUPLICATE -> DUPLICATE_LINKED without HITL, whatever the classifier asked;
\* NEAR_DUPLICATE -> NEEDS_HITL with HITL; UNIQUE with the classifier's
\* requires_hitl -> NEEDS_HITL with HITL; UNIQUE otherwise ->
\* NEEDS_INTERPRETATION without HITL; hitl_task_required is true exactly when
\* the recommended state is NEEDS_HITL.
C13_DecisionTable ==
    co_pc \in {"make_coordination_decision", "coordinate_image_processing"} =>
        LET level == co_result.similarity_analysis.similarity_level
            asked == co_result.diagram_classification.requires_hitl
        IN  /\ level = DUPLICATE =>
                  /\ co_result.recommended_state = ImgState("duplicate_linked")
                  /\ ~co_result.hitl_task_required
            /\ level = NEAR_DUPLICATE =>
                  /\ co_result.recommended_state = ImgState("needs_hitl")
                  /\ co_result.hitl_task_required
            /\ (level = UNIQUE /\ asked) =>
                  /\ co_result.recommended_state = ImgState("needs_hitl")
                  /\ co_result.hitl_task_required
            /\ (level = UNIQUE /\ ~asked) =>
                  /\ co_result.recommended_state = ImgState("needs_interpretation")
                  /\ ~co_result.hitl_task_required
            /\ co_result.hitl_task_required
                  <=> co_result.recommended_state = ImgState("needs_hitl")

\* a duplicate for which the classifier asked for review
C13_Witness ==
    /\ co_pc = "make_coordination_decision"
    /\ co_input.similarity.similarity_level = DUPLICATE
    /\ co_input.classification.requires_hitl
    /\ co_result.recommended_state = ImgState("duplicate_linked")
    /\ ~co_result.hitl_task_required

----------------------------------------------------------------------------
\* Properties of the manual override system

OverrideCalled == ov_pc # "idle"

NothingWritten == ov_trail = <<>> /\ ov_states = ov_result.states_before

FailsValidationLengths(request) ==
    \/ StrippedLen(request.justification) < 100
    \/ StrippedLen(request.expected_outcome) < 50
    \/ /\ request.risk_level \in {"medium", "high"}
       /\ StrippedLen(request.rollback_plan) < 50

AuthorizationPassed == validate_administrator_authorization(ov_request) = ""

TargetStateFits(request) ==
    \/ request.target_state = ""
    \/ /\ request.document_id # NoId => request.target_state \in DocumentStateValues
       /\ request.image_id # NoId => request.target_state \in ImageStateValues

RequiredFieldsPresent(request) ==
    /\ StrippedLen(request.justification) >= 100
    /\ StrippedLen(request.expected_outcome) >= 50
    /\ request.risk_level \in {"medium", "high"} =>
           StrippedLen(request.rollback_plan) >= 50
    /\ request.scope = "single_document" => request.document_id # NoId
    /\ request.scope = "single_image" => request.image_id # NoId
    /\ request.scope = "document_batch" => request.document_ids # <<>>
    /\ TargetStateFits(request)

Unauthorized(request) ==
    \/ ~request.administrator.exists
    \/ ~request.administrator.permitted
    \/ /\ request.emergency_level = "critical"
       /\ ~request.administrator.is_superuser

\* C15: a request of an administrator who does not exist, lacks the
\* permission of the emergency level, or asks for a critical override
\* without being superuser raises OverrideAuthorizationError with no audit
\* record written, no state changed and no execution attempted.
C15_UnauthorizedRaisesAuthorizationError ==
    (OverrideCalled /\ Unauthorized(ov_request)) =>
        /\ ov_result.raised = "OverrideAuthorizationError"
        /\ NothingWritten

ValidationPassed == validate_override_request(ov_request) = ""

\* the logger takes the request: the justification has at most 2000
\* characters and the administrator is a row of the user table
LoggerAccepts ==
    /\ ov_request.justification.len <= 2000
    /\ ov_request.administrator.exists

Last(seq) == seq[Len(seq)]

\* the order of the audit writes and execution steps of one override
AuditStepsInOrder ==
    /\ Len(ov_trail) >= 4
    /\ ov_trail[1].step = "requested"
    /\ ov_trail[2].step = "execute"
    /\ ov_trail[Len(ov_trail) - 1].step = "execution"
    /\ Last(ov_trail).step = "completion"
    /\ ov_result.raised # "" =>
           /\ ov_result.raised = "OverrideExecutionError"
           /\ IF ov_request.rollback_plan.len > 0
              THEN Len(ov_trail) = 5 /\ ov_trail[3].step = "rollback_attempt"
              ELSE Len(ov_trail) = 4
           /\ ~ov_trail[Len(ov_trail) - 1].success
           /\ Last(ov_trail).status = "failed"
    /\ ov_result.raised = "" =>
           /\ Len(ov_trail) = 4
           /\ ov_trail[3].success
           /\ Last(ov_trail).status = "success"
           /\ ov_result.override_id = ov_trail[1].override_id

----------------------------------------------------------------------------
\* Properties of process_document

\* C17: a process_document call whose allocation succeeded and that
\* returns False does not leave the document holding its resource.
C17_FailedCallReleases ==
    (/\ pd_pc = "returned"
     /\ pd_input.should_process = "truthy"
     /\ pd_input.allocation = "truthy"
     /\ ~pd_result) =>
        pd_input.document_id \notin pd_held

----------------------------------------------------------------------------
\* Properties of the document timeout

CheckedNow(d) ==
    /\ rm_call'.op = "check_document_timeout"
    /\ rm_call'.document_id = d

\* 24 hours or more have passed since the first recorded request of d
PastTimeout(d) ==
    /\ document_start_times[d] # NoTime
    /\ now - document_start_times[d] >= 24 * 60

\* C18: no document is escalated twice; the escalation count of a document
\* changes only in a check of that document made 24 hours or more after
\* its first recorded request; every such check returns True and leaves
\* the document escalated exactly once; a check of a document with no
\* recorded request, or made earlier, returns False.
C18_EscalatedOnceOnFirstLateCheck ==
    [][\A d \in Docs :
          /\ escalations[d] <= 1
          /\ escalations'[d] # escalations[d] => CheckedNow(d) /\ PastTimeout(d)
          /\ CheckedNow(d) =>
                /\ rm_call'.ret = PastTimeout(d)
                /\ PastTimeout(d) => escalations'[d] = 1
                /\ escalations[d] = 1 => rm_call'.ret = TRUE]_vars

C18_Witness ==
    /\ rm_call.op = "check_document_timeout"
    /\ rm_call.ret = TRUE
    /\ escalations[rm_call.document_id] = 1
    /\ now = 2880
    /\ document_start_times[rm_call.document_id] = 1
    /\ \E d \in Docs : document_start_times[d] = NoTime

----------------------------------------------------------------------------
\* Properties of the full queue

\* C19: the total queue depth never exceeds MAX_QUEUE_DEPTH, and a request
\* that has to be queued when the depth has reached MAX_QUEUE_DEPTH is
\* rejected with error code QUEUE_EXHAUSTED, the queues, the allocations
\* and the document start times unchanged.
C19_FullQueueRejectsWithQueueExhausted ==
    /\ [](QueueDepth <= MAX_QUEUE_DEPTH)
    /\ [][(RequestAtFullPool /\ QueueDepth >= MAX_QUEUE_DEPTH) =>
            /\ rm_call'.error = QUEUE_EXHAUSTED
            /\ UNCHANGED <<critical_queue, standard_queue, low_queue,
                           gpu_allocations, ocr_allocations,
                           document_start_times>>]_vars

----------------------------------------------------------------------------
\* Properties of the lifecycles

\* no transition that validate_transition accepts leads from a state of
\* the set to a state outside it
ClosedUnderTransitions(states) ==
    \A from_state \in states, trigger \in TransitionTrigger,
       completion_percentage \in LifecycleCompletions :
        \A to_state \in StatesOf(from_state) :
            validate_transition(LifecycleContext(completion_percentage),
                                from_state, trigger, to_state) = ""
                => to_state \in states

\* C20: every state of the enum is reachable from the initial state: once
\* the states reached admit no accepted transition to a further state,
\* they are all the states of the enum (eight for a document, eleven for
\* an image).
C20_EveryStateReachable ==
    ClosedUnderTransitions(lc_reached) => lc_reached = StatesOf(lc_current)

----------------------------------------------------------------------------
\* Properties of the batch override

\* this call ran a batch override to a target state
BatchExecuted ==
    /\ OverrideCalled
    /\ ov_request.scope = "document_batch"
    /\ ov_request.target_state # ""
    /\ ov_trail # <<>>

ElementsOf(seq) == {seq[i] : i \in 1..Len(seq)}

----------------------------------------------------------------------------
\* Properties of the classifier and of the decisions against the table

ClassifierReturned ==
    /\ co_pc = "classify_diagram"
    /\ co_input.image_metadata.valid

ExtremeSizeOrRatio(md) ==
    md.file_size_kb < 10 \/ md.aspect_ratio > 1000 \/ md.aspect_ratio < 10

\* C24: an image whose text matches a decorative pattern, or whose file
\* size or aspect ratio is extreme, is classified DECORATIVE with
\* requires_hitl false.
C24_DecorativeNeedsNoReview ==
    (/\ ClassifierReturned
     /\ \/ co_input.image_metadata.decorative_matches >= 1
        \/ ExtremeSizeOrRatio(co_input.image_metadata)) =>
        /\ co_result.diagram_type = "decorative"
        /\ ~co_result.requires_hitl

\* the inputs of the claim: any number of critical patterns, with or
\* without title-page content, no decorative pattern, normal size and ratio
PlainInputs ==
    {md \in MetadataInputs \ {NoMetadata} :
        md.decorative_matches = 0 /\ ~ExtremeSizeOrRatio(md)}

\* C30: some plain input is classified CRITICAL with a confidence of 0.85 or
\* more, auto_classified true and requires_hitl false, and the confidence
\* reported for the input classified is at most 0.95.
C30_HighConfidenceReachable ==
    ClassifierReturned =>
        /\ \E md \in PlainInputs :
              LET c == classify_diagram(md)
              IN  /\ c.diagram_type = "critical"
                  /\ c.confidence >= HIGH_CONFIDENCE_THRESHOLD
                  /\ c.auto_classified
                  /\ ~c.requires_hitl
        /\ co_result.confidence <= 399

\* C28: the trigger and the state of a decision are the trigger and the
\* to_state of a rule of the image transition table.
C28_DecisionIsARuleOfTheTable ==
    co_pc \in {"make_coordination_decision", "coordinate_image_processing"} =>
        \E rule \in image_transitions :
            /\ rule.trigger = co_result.recommended_trigger
            /\ rule.to_state = co_result.recommended_state

----------------------------------------------------------------------------
\* Properties of the manager's ids, sweeps and slots

\* C25: a request that was queued and is allocated by a release is held under
\* the id request_processing returned for it, so that release_resource with
\* that id finds the allocation, returns True and frees its slot.
C25_QueuedRequestReleasableByReturnedId ==
    [][rm_call'.op = "release_resource" =>
        \A q \in QueuedRequests :
            q \notin QueuedRequests' =>
                /\ q.request_id \in AllocationIds(gpu_allocations' \cup ocr_allocations')
                /\ release_resource(RMState', q.request_id, now').ret]_vars

\* how many times a request stands in a queue
Occurrences(queue, request) == Cardinality({i \in 1..Len(queue) : queue[i] = request})

\* the queue a request stands in: 1 critical, 2 standard, 3 low, 0 none
QueueOf(request, critical, standard, low) ==
    IF request \in Range(critical) THEN 1
    ELSE IF request \in Range(standard) THEN 2
    ELSE IF request \in Range(low) THEN 3
    ELSE 0

\* C26: a prevent_starvation sweep loses no request -- each request that was
\* in a queue before the sweep is in exactly one of the three queues after
\* it -- and the count it returns is the number of distinct requests that
\* changed queue.
C26_SweepLosesNoRequest ==
    [][rm_call'.op = "prevent_starvation" =>
        /\ \A q \in QueuedRequests :
              Occurrences(critical_queue', q) + Occurrences(standard_queue', q)
                  + Occurrences(low_queue', q) = 1
        /\ rm_call'.ret =
              Cardinality({q \in QueuedRequests :
                  QueueOf(q, critical_queue', standard_queue', low_queue')
                      # QueueOf(q, critical_queue, standard_queue, low_queue)})]_vars

\* some queue holds a request of the processing type
Waiting(processing_type) == \E q \in QueuedRequests : q.processing_type = processing_type

WorkConserving ==
    /\ Waiting(GPU_INTERPRETATION) => Cardinality(gpu_allocations) = MAX_GPU_SLOTS
    /\ Waiting(OCR_EXTRACTION) => Cardinality(ocr_allocations) = MAX_OCR_SLOTS

\* C27: in every state reached by request_processing, release_resource and
\* prevent_starvation, a queued GPU request means that all GPU slots are
\* allocated, and a queued OCR request that all OCR slots are; a release
\* that returns False changes neither the queues nor the allocations.
C27_WorkConservingAndUnknownReleaseIsNoOp ==
    /\ []WorkConserving
    /\ [][(rm_call'.op = "release_resource" /\ ~rm_call'.ret) =>
            UNCHANGED <<gpu_allocations, ocr_allocations, critical_queue,
                        standard_queue, low_queue>>]_vars

\* a release freed a slot while requests of its type were waiting, and the
\* pool is full again
C27_Witness ==
    /\ rm_call.op = "release_resource"
    /\ rm_call.ret = TRUE
    /\ Waiting(GPU_INTERPRETATION)
    /\ Waiting(OCR_EXTRACTION)

----------------------------------------------------------------------------
\* Properties of the event publisher

\* the subscriptions a payload is to be posted to
MatchingWebhooks(payload) ==
    {s \in ep_subscribers : should_deliver_to_subscription(payload, s) /\ s.webhook_url # ""}

\* the delivery of the payload is over, every client that was connected from
\* its start to its end has been sent the payload, and every matching
\* subscription has had a post
Attempted(payload) ==
    /\ ep_payload = payload
    /\ ep_pc = "delivering"
    /\ DeliveriesOver
    /\ ep_ws.stayed \subseteq ep_ws.sent
    /\ \A s \in MatchingWebhooks(payload) : ep_wh[s.subscription_id].attempts >= 1

\* C22: a payload is in the event log before it is on the queue; the
\* processing task takes the payloads in the order they were put; and, while
\* the processing task runs, a payload on the queue leads to a delivery that
\* has tried every connected WebSocket client and every active matching
\* webhook subscription.
C22_PersistedThenDeliveredInOrder ==
    /\ [](Range(ep_queue) \subseteq Range(ep_log))
    /\ [][ep_taken' # ep_taken =>
            /\ ep_queue # <<>>
            /\ ep_taken' = Append(ep_taken, Head(ep_queue))
            /\ ep_queue' = Tail(ep_queue)]_vars
    /\ \A payload \in EventPayloads :
            (payload \in Range(ep_queue)) ~> (ep_task # "running" \/ Attempted(payload))

\* C23: one delivery to one webhook posts at most max_retries + 1 times, and
\* a post that is not the first follows a backoff wait, whether the post
\* before it raised or was answered with a status from 400 on; the delivery
\* that gave up leaves the processing task running.
C23_BoundedAttemptsWithBackoff ==
    [][\A id \in SubscriptionIds :
          /\ ep_wh'[id].attempts <= SubscriptionOf(id).max_retries + 1
          /\ (ep_wh'[id].attempts > ep_wh[id].attempts /\ ep_wh[id].attempts >= 1)
                => ep_wh[id].pc = "backoff"
          /\ ep_wh'[id].pc = "failed" => ep_task' = "running"]_vars

\* C29: when _deliver_to_websockets ends, every client that was connected
\* from its start to its end has been sent the payload, the clients whose
\* send failed -- and no others -- have been removed, and so no client added
\* meanwhile has been dropped.
C29_ClientChangesDoNotBreakDelivery ==
    [][(ep_ws.pc = "sending" /\ ep_ws'.pc \in {"returned", "raised"}) =>
          /\ ep_ws'.stayed \subseteq ep_ws'.sent
          /\ ep_clients' = ep_clients \ ep_ws'.disconnected_clients]_vars

============================================================================
